---- MODULE Spec2Model ----
(***************************************************************************)
(* Record/replay non-deterministic event log of panda/src/rr/rr_log.c.     *)
(*                                                                         *)
(* The log file is a byte sequence.  rr_write_item appends the fields of   *)
(* an entry one by one, rr_read_item decodes them back by tag.  The        *)
(* prefetch queue and the recycle list are singly linked lists of entry    *)
(* shells held in a heap (shells); a pointer is an index into the heap and *)
(* NULL is 0.                                                              *)
(***************************************************************************)
EXTENDS Integers, Sequences, FiniteSets, TLC

(***************************************************************************)
(* Bounds of the model.                                                    *)
(***************************************************************************)
\* largest guest instruction count the clock reaches
MaxInstr == 2
\* largest number of entries a record session writes before LAST
MaxItems == 2
\* RR_MAX_QUEUE_LEN (65536 in the source, line 833), scaled down
RR_MAX_QUEUE_LEN == 1

NULL == 0

PcValues == {0, 1}
SecondaryValues == {0}

(***************************************************************************)
(* Program points.                                                         *)
(***************************************************************************)
PP(i, p, s) == [guest_instr_count |-> i, pc |-> p, secondary |-> s]

ZeroPP == PP(0, 0, 0)

ProgPoints ==
    {PP(i, p, s) : i \in 0..MaxInstr, p \in PcValues, s \in SecondaryValues}

\* strict lexicographic order on (instr, pc, secondary)
PPLess(a, b) ==
    \/ a.guest_instr_count < b.guest_instr_count
    \/ /\ a.guest_instr_count = b.guest_instr_count
       /\ \/ a.pc < b.pc
          \/ a.pc = b.pc /\ a.secondary < b.secondary

PPLeq(a, b) == a = b \/ PPLess(a, b)

\* rr_prog_point_compare(current, recorded, kind) of rr_log.h: 0 when the
\* recorded point is due, negative when it lies ahead of the guest, positive
\* when the guest is past it.  For interrupts and skipped calls pc and
\* secondary are ignored.
rr_prog_point_compare(current, recorded, kind) ==
    IF current.guest_instr_count < recorded.guest_instr_count THEN -1
    ELSE IF current.guest_instr_count > recorded.guest_instr_count THEN 1
    ELSE IF kind \in {"RR_INTERRUPT_REQUEST", "RR_SKIPPED_CALL"} THEN 0
    ELSE IF current = recorded THEN 0
    ELSE IF PPLess(current, recorded) THEN -1
    ELSE 1

(***************************************************************************)
(* Enumerations of rr_log.h and their on-disk codes.                       *)
(***************************************************************************)
InputKinds == {"RR_INPUT_1", "RR_INPUT_2", "RR_INPUT_4", "RR_INPUT_8"}

LogEntryKinds ==
    <<"RR_INPUT_1", "RR_INPUT_2", "RR_INPUT_4", "RR_INPUT_8",
      "RR_INTERRUPT_REQUEST", "RR_EXIT_REQUEST", "RR_SKIPPED_CALL",
      "RR_DEBUG", "RR_LAST">>

SkippedCallKinds ==
    <<"RR_CALL_CPU_MEM_RW", "RR_CALL_CPU_MEM_UNMAP",
      "RR_CALL_MEM_REGION_CHANGE", "RR_CALL_HD_TRANSFER",
      "RR_CALL_NET_TRANSFER", "RR_CALL_HANDLE_PACKET">>

CallSites ==
    <<"RR_CALLSITE_CPU_HANDLE_INTERRUPT", "RR_CALLSITE_MAIN_LOOP_WAIT",
      "RR_CALLSITE_IO_READ", "RR_CALLSITE_LAST">>

\* the code of an enumerator is its position, counted from 0
EnumCode(enum, name) == (CHOOSE i \in 1..Len(enum) : enum[i] = name) - 1

EnumValid(enum, code) == code \in 0..(Len(enum) - 1)

EnumName(enum, code) == enum[code + 1]

(***************************************************************************)
(* Log entries.  args holds the scalar fields of the variant in the order  *)
(* of the struct, buf the variable-length tail.                            *)
(***************************************************************************)
Entry(pp, kind, cs, ck, args, buf) ==
    [prog_point |-> pp, kind |-> kind, callsite_loc |-> cs,
     call_kind |-> ck, args |-> args, buf |-> buf]

\* memset(item, 0, sizeof(RR_log_entry))
ZeroEntry == Entry(ZeroPP, "RR_INPUT_1", "RR_CALLSITE_CPU_HANDLE_INTERRUPT",
                   "", <<>>, <<>>)

\* sizeof of each scalar field of a variant, in struct order
VariantLayout(kind, ck) ==
    CASE kind = "RR_INPUT_1" -> <<1>>
      [] kind = "RR_INPUT_2" -> <<2>>
      [] kind = "RR_INPUT_4" -> <<4>>
      [] kind = "RR_INPUT_8" -> <<8>>
      [] kind = "RR_INTERRUPT_REQUEST" -> <<4>>
      [] kind = "RR_EXIT_REQUEST" -> <<4>>
      [] kind = "RR_SKIPPED_CALL" ->
           (CASE ck = "RR_CALL_CPU_MEM_RW" -> <<8, 4>>
              [] ck = "RR_CALL_CPU_MEM_UNMAP" -> <<8, 8>>
              [] ck = "RR_CALL_MEM_REGION_CHANGE" -> <<8, 8, 4, 4, 1>>
              [] ck = "RR_CALL_HD_TRANSFER" -> <<4, 8, 8, 4>>
              [] ck = "RR_CALL_NET_TRANSFER" -> <<4, 8, 8, 4>>
              [] ck = "RR_CALL_HANDLE_PACKET" -> <<8, 4, 1>>
              [] OTHER -> <<>>)
      [] OTHER -> <<>>

\* index in args of the field that gives the length of the tail, 0 if none
TailLenField(kind, ck) ==
    IF kind # "RR_SKIPPED_CALL" THEN 0
    ELSE CASE ck = "RR_CALL_CPU_MEM_RW" -> 2
           [] ck = "RR_CALL_CPU_MEM_UNMAP" -> 2
           [] ck = "RR_CALL_MEM_REGION_CHANGE" -> 3
           [] ck = "RR_CALL_HANDLE_PACKET" -> 2
           [] OTHER -> 0

(***************************************************************************)
(* Bytes (host byte order, little endian).                                 *)
(***************************************************************************)
\* fwrite(&field, sizeof(field), 1): the low w bytes of v, lowest first
RECURSIVE ToBytes(_, _)
ToBytes(v, w) ==
    IF w = 0 THEN <<>> ELSE <<v % 256>> \o ToBytes(v \div 256, w - 1)

RECURSIVE FromBytes(_)
FromBytes(bs) ==
    IF bs = <<>> THEN 0 ELSE bs[1] + 256 * FromBytes(Tail(bs))

RECURSIVE Sum(_)
Sum(ws) == IF ws = <<>> THEN 0 ELSE ws[1] + Sum(Tail(ws))

RECURSIVE FieldsToBytes(_, _)
FieldsToBytes(vals, ws) ==
    IF ws = <<>> THEN <<>>
    ELSE ToBytes(vals[1], ws[1]) \o FieldsToBytes(Tail(vals), Tail(ws))

RECURSIVE FieldsFromBytes(_, _)
FieldsFromBytes(bs, ws) ==
    IF ws = <<>> THEN <<>>
    ELSE <<FromBytes(SubSeq(bs, 1, ws[1]))>>
         \o FieldsFromBytes(SubSeq(bs, ws[1] + 1, Len(bs)), Tail(ws))

PPToBytes(pp) ==
    ToBytes(pp.guest_instr_count, 8) \o ToBytes(pp.pc, 8)
        \o ToBytes(pp.secondary, 8)

PPFromBytes(bs) ==
    PP(FromBytes(SubSeq(bs, 1, 8)), FromBytes(SubSeq(bs, 9, 16)),
       FromBytes(SubSeq(bs, 17, 24)))

(***************************************************************************)
(* The encoding rr_write_item gives an entry, and its decoding by          *)
(* rr_read_item.                                                           *)
(***************************************************************************)
HeaderToBytes(item) ==
    PPToBytes(item.prog_point)
        \o ToBytes(EnumCode(LogEntryKinds, item.kind), 4)
        \o ToBytes(EnumCode(CallSites, item.callsite_loc), 4)

\* the switch of rr_write_item with the rr_fwrite of the buffers left out
VariantToBytes_without_tail(item) ==
    IF item.kind = "RR_SKIPPED_CALL"
    THEN ToBytes(EnumCode(SkippedCallKinds, item.call_kind), 4)
             \o FieldsToBytes(item.args,
                              VariantLayout(item.kind, item.call_kind))
    ELSE FieldsToBytes(item.args, VariantLayout(item.kind, item.call_kind))

\* the switch of rr_write_item: the variant, then the tail
VariantToBytes(item) ==
    IF item.kind = "RR_SKIPPED_CALL"
    THEN ToBytes(EnumCode(SkippedCallKinds, item.call_kind), 4)
             \o FieldsToBytes(item.args,
                              VariantLayout(item.kind, item.call_kind))
             \o item.buf
    ELSE FieldsToBytes(item.args, VariantLayout(item.kind, item.call_kind))

ItemToBytes(item) == HeaderToBytes(item) \o VariantToBytes(item)

\* rr_fwrite(buf, size, 1) of a handle_packet tail: fwrite returns 0 for an
\* empty object, and rr_fwrite asserts result == nmemb
WriteItemFails(item) ==
    /\ item.kind = "RR_SKIPPED_CALL"
    /\ item.call_kind = "RR_CALL_HANDLE_PACKET"
    /\ item.args[2] = 0

HeaderSize == Len(HeaderToBytes(ZeroEntry))

ProgPointSize == Len(PPToBytes(ZeroPP))

\* what fread(ptr, size, nmemb) returns at offset pos: the number of
\* complete objects read
fread(bytes, pos, size, nmemb) ==
    IF size = 0 \/ nmemb = 0 THEN 0
    ELSE IF (Len(bytes) - pos) \div size < nmemb
    THEN (Len(bytes) - pos) \div size
    ELSE nmemb

\* the rr_assert(result == nmemb) of rr_fread holds
rr_fread(bytes, pos, size, nmemb) == fread(bytes, pos, size, nmemb) = nmemb

\* an enumerator read from the file; UNKNOWN stands for a code outside the
\* enumeration
EnumRead(enum, bytes, pos) ==
    IF EnumValid(enum, FromBytes(SubSeq(bytes, pos + 1, pos + 4)))
    THEN EnumName(enum, FromBytes(SubSeq(bytes, pos + 1, pos + 4)))
    ELSE "UNKNOWN"

\* rr_read_item stopped by a failed rr_assert, bytes_read at pos
DecodeFailed(pos) == [ok |-> FALSE, entry |-> ZeroEntry, pos |-> pos]

Decoded(pos, entry) == [ok |-> TRUE, entry |-> entry, pos |-> pos]

\* the variable-length tail of a skipped call, tl bytes; handle_packet
\* reads it as one object of tl bytes, the others as tl objects of one byte
DecodeBuf(bytes, pos, pp, cs, ck, args, tl) ==
    IF IF ck = "RR_CALL_HANDLE_PACKET" THEN ~rr_fread(bytes, pos, tl, 1)
       ELSE ~rr_fread(bytes, pos, 1, tl)
    THEN DecodeFailed(pos + tl)
    ELSE Decoded(pos + tl, Entry(pp, "RR_SKIPPED_CALL", cs, ck, args,
                                 SubSeq(bytes, pos + 1, pos + tl)))

\* the argument struct of a skipped call, read as one object
DecodeCallArgs(bytes, pos, pp, cs, ck, size) ==
    IF ~rr_fread(bytes, pos, size, 1) THEN DecodeFailed(pos + size)
    ELSE IF TailLenField("RR_SKIPPED_CALL", ck) = 0
    THEN Decoded(pos + size,
                 Entry(pp, "RR_SKIPPED_CALL", cs, ck,
                       FieldsFromBytes(SubSeq(bytes, pos + 1, pos + size),
                                       VariantLayout("RR_SKIPPED_CALL", ck)),
                       <<>>))
    ELSE DecodeBuf(bytes, pos + size, pp, cs, ck,
                   FieldsFromBytes(SubSeq(bytes, pos + 1, pos + size),
                                   VariantLayout("RR_SKIPPED_CALL", ck)),
                   FieldsFromBytes(SubSeq(bytes, pos + 1, pos + size),
                                   VariantLayout("RR_SKIPPED_CALL", ck))
                       [TailLenField("RR_SKIPPED_CALL", ck)])

\* case RR_SKIPPED_CALL: the sub-kind first, then its switch
DecodeCall(bytes, pos, pp, cs, ck) ==
    IF ~rr_fread(bytes, pos, 4, 1) THEN DecodeFailed(pos + 4)
    ELSE IF ck = "UNKNOWN" THEN DecodeFailed(pos + 4)
    ELSE DecodeCallArgs(bytes, pos + 4, pp, cs, ck,
                        Sum(VariantLayout("RR_SKIPPED_CALL", ck)))

\* the switch on header.kind
DecodeVariant(bytes, pos, pp, kind, cs, size) ==
    IF kind = "UNKNOWN" THEN DecodeFailed(pos)
    ELSE IF kind = "RR_SKIPPED_CALL"
    THEN DecodeCall(bytes, pos, pp, cs, EnumRead(SkippedCallKinds, bytes, pos))
    ELSE IF kind \in {"RR_LAST", "RR_DEBUG"}
    THEN Decoded(pos, Entry(pp, kind, cs, "", <<>>, <<>>))
    ELSE IF ~rr_fread(bytes, pos, size, 1) THEN DecodeFailed(pos + size)
    ELSE Decoded(pos + size,
                 Entry(pp, kind, cs, "",
                       FieldsFromBytes(SubSeq(bytes, pos + 1, pos + size),
                                       VariantLayout(kind, "")),
                       <<>>))

\* the header's kind and call-site, then the variant
DecodeKind(bytes, pos, pp, kind) ==
    IF ~rr_fread(bytes, pos, 4, 1) THEN DecodeFailed(pos + 4)
    ELSE IF ~rr_fread(bytes, pos + 4, 4, 1) THEN DecodeFailed(pos + 8)
    ELSE DecodeVariant(bytes, pos + 8, pp, kind,
                       EnumRead(CallSites, bytes, pos + 4),
                       Sum(VariantLayout(kind, "")))

\* rr_read_item, the decoding part, on the entry at offset pos:
\* [ok, entry, pos]
DecodeItem(bytes, pos) ==
    IF ~rr_fread(bytes, pos, ProgPointSize, 1)
    THEN DecodeFailed(pos + ProgPointSize)
    ELSE DecodeKind(bytes, pos + ProgPointSize,
                    PPFromBytes(SubSeq(bytes, pos + 1, pos + ProgPointSize)),
                    EnumRead(LogEntryKinds, bytes, pos + ProgPointSize))

\* successive rr_read_item calls over a whole file, after its header
RECURSIVE DecodeFrom(_, _)
DecodeRest(bytes, d) ==
    IF ~d.ok THEN <<>> ELSE <<d.entry>> \o DecodeFrom(bytes, d.pos)

DecodeFrom(bytes, pos) ==
    IF pos >= Len(bytes) THEN <<>>
    ELSE DecodeRest(bytes, DecodeItem(bytes, pos))

DecodeLog(bytes) == DecodeFrom(bytes, ProgPointSize)

(***************************************************************************)
(* State.                                                                  *)
(***************************************************************************)
VARIABLES
    rr_mode,                    \* RR_OFF, RR_RECORD, RR_REPLAY
    clock,                      \* what rr_prog_point() returns
    file,                       \* the bytes of the nondet log file on disk
    rr_nondet_log,              \* the RR_log, or NoLog for NULL
    panda_current_interrupt_request,
    shells,                     \* heap of RR_log_entry shells: [entry, next]
    rr_queue_head,
    rr_queue_tail,
    recycle_list,
    rr_number_of_log_entries,
    rr_size_of_log_entries,
    rr_max_num_queue_entries,
    status,                     \* running, aborted (abort()), crashed, shutdown
    written,                    \* the items rr_write_item has written
    fill_ret,                   \* what the latest rr_fill_queue returned with
    observed,                   \* what the recorded guest saw, call by call
    mirror,                     \* how many of those calls replay has repeated
    delivered,                  \* the entries get_next_entry has returned
    rr_record_requested,        \* 0, RR_RECORD_REQUEST, RR_RECORD_FROM_REQUEST
    rr_end_record_requested,
    rr_end_replay_requested,
    rr_requested_name,          \* "" for NULL
    rr_snapshot_name,           \* "" for NULL
    rr_map_list,                \* the tracked regions: [addr, ptr, len, crc]
    guest_mem,                  \* guest physical memory: the bytes written
    globals_layout,             \* where the build has put the counter arrays
    skipped_calls_pc            \* the call-site of the running loop of
                                \* rr_replay_skipped_calls_internal, or ""

vars ==
    <<rr_mode, clock, file, rr_nondet_log, panda_current_interrupt_request,
      shells, rr_queue_head, rr_queue_tail, recycle_list,
      rr_number_of_log_entries, rr_size_of_log_entries,
      rr_max_num_queue_entries, status, written, fill_ret, observed,
      mirror, delivered, rr_record_requested, rr_end_record_requested,
      rr_end_replay_requested, rr_requested_name, rr_snapshot_name,
      rr_map_list, guest_mem, globals_layout, skipped_calls_pc>>

NoLog ==
    [type |-> "NULL", fp |-> FALSE, last_prog_point |-> ZeroPP,
     bytes_read |-> 0, size |-> 0, item_number |-> 0]

\* g_new0(RR_log, 1) with the type set and the file opened
NewLog(type) == [NoLog EXCEPT !.type = type, !.fp = TRUE]

NoFill ==
    [called |-> FALSE, num_entries |-> 0, log_empty |-> FALSE,
     tail_kind |-> "", tail_callsite |-> "", bytes |-> 0, queue_len |-> 0]

\* the per-kind counters; index RR_LAST is the cell behind the arrays
ZeroCounters == [k \in 0..EnumCode(LogEntryKinds, "RR_LAST") |-> 0]

\* The arrays are declared with RR_LAST cells, so cell RR_LAST is another
\* object, whichever the build has put there.  "packed": the three counter
\* objects lie in the order of their declarations, the cell behind
\* rr_number_of_log_entries is rr_size_of_log_entries[0] and the cell behind
\* rr_size_of_log_entries is rr_max_num_queue_entries.  "apart": the cells
\* behind the arrays are objects of their own, which nothing else reads.
GlobalsLayouts == {"apart", "packed"}

\* The process state a function works on, as one record.  given lists the
\* entries handed to the caller during the call.
St ==
    [mode |-> rr_mode, clock |-> clock, log |-> rr_nondet_log, file |-> file,
     intr |-> panda_current_interrupt_request,
     shells |-> shells, head |-> rr_queue_head, tail |-> rr_queue_tail,
     recycle |-> recycle_list,
     num |-> rr_number_of_log_entries, sizes |-> rr_size_of_log_entries,
     maxq |-> rr_max_num_queue_entries, status |-> status,
     written |-> written, fill |-> fill_ret, observed |-> observed,
     mirror |-> mirror, delivered |-> delivered,
     record_requested |-> rr_record_requested,
     end_record_requested |-> rr_end_record_requested,
     end_replay_requested |-> rr_end_replay_requested,
     requested_name |-> rr_requested_name,
     snapshot_name |-> rr_snapshot_name, map_list |-> rr_map_list,
     mem |-> guest_mem, layout |-> globals_layout, pc |-> skipped_calls_pc,
     given |-> <<>>]

Commit(s) ==
    /\ rr_mode' = s.mode
    /\ clock' = s.clock
    /\ rr_nondet_log' = s.log
    /\ file' = s.file
    /\ panda_current_interrupt_request' = s.intr
    /\ shells' = s.shells
    /\ rr_queue_head' = s.head
    /\ rr_queue_tail' = s.tail
    /\ recycle_list' = s.recycle
    /\ rr_number_of_log_entries' = s.num
    /\ rr_size_of_log_entries' = s.sizes
    /\ rr_max_num_queue_entries' = s.maxq
    /\ status' = s.status
    /\ written' = s.written
    /\ fill_ret' = s.fill
    /\ observed' = s.observed
    /\ mirror' = s.mirror
    /\ delivered' = s.delivered
    /\ rr_record_requested' = s.record_requested
    /\ rr_end_record_requested' = s.end_record_requested
    /\ rr_end_replay_requested' = s.end_replay_requested
    /\ rr_requested_name' = s.requested_name
    /\ rr_snapshot_name' = s.snapshot_name
    /\ rr_map_list' = s.map_list
    /\ guest_mem' = s.mem
    /\ globals_layout' = s.layout
    /\ skipped_calls_pc' = s.pc

Running(s) == s.status = "running"

\* rr_assert_fail: abort()
Abort(s) == [s EXCEPT !.status = "aborted"]

\* a null pointer is dereferenced
Crash(s) == [s EXCEPT !.status = "crashed"]

rr_in_record(s) == s.mode = "RR_RECORD"

rr_in_replay(s) == s.mode = "RR_REPLAY"

\* the pointers of a list, from p along next
RECURSIVE ListFrom(_, _, _)
ListFrom(sh, p, fuel) ==
    IF p = NULL \/ fuel = 0 THEN <<>>
    ELSE <<p>> \o ListFrom(sh, sh[p].next, fuel - 1)

EntriesAt(sh, ps) == [i \in 1..Len(ps) |-> sh[ps[i]].entry]

\* the entries of the prefetch queue, head first
QueueOf(s) == EntriesAt(s.shells, ListFrom(s.shells, s.head, Len(s.shells)))

Queue == QueueOf(St)

RecyclePtrs == ListFrom(shells, recycle_list, Len(shells))

(***************************************************************************)
(* RECORD                                                                  *)
(***************************************************************************)
\* rr_prog_point() of rr_log.h: the guest's current program point
rr_prog_point(s) == s.clock

\* rr_write_item on the item the capture function has left in current_item
rr_write_item(s, item) ==
    IF ~Running(s) THEN s
    ELSE IF s.log = NoLog THEN Crash(s)
    ELSE IF ~rr_in_record(s) THEN Abort(s)
    ELSE IF WriteItemFails(item)
    THEN Abort([s EXCEPT !.file =
                   s.file \o HeaderToBytes(item)
                       \o SubSeq(VariantToBytes(item), 1,
                                 4 + Sum(VariantLayout(item.kind,
                                                       item.call_kind))),
                         !.log.last_prog_point = item.prog_point])
    ELSE [s EXCEPT !.file = s.file \o ItemToBytes(item),
                   !.log.last_prog_point = item.prog_point,
                   !.log.item_number = s.log.item_number + 1,
                   !.written = Append(s.written, item)]

\* the body the capture functions share: zero current_item, stamp the
\* header with the current program point, fill the variant, write
Capture(s, kind, call_site, ck, args, buf) ==
    IF ~Running(s) THEN s
    ELSE IF s.log = NoLog THEN Crash(s)
    ELSE rr_write_item(s, Entry(rr_prog_point(s), kind, call_site, ck, args,
                                buf))

\* rr_record_debug with the header's program point left as memset zeroed it
rr_record_debug_unstamped(s, call_site) ==
    IF ~Running(s) THEN s
    ELSE IF s.log = NoLog THEN Crash(s)
    ELSE rr_write_item(s, Entry(ZeroPP, "RR_DEBUG", call_site, "", <<>>, <<>>))

rr_record_debug(s, call_site) ==
    Capture(s, "RR_DEBUG", call_site, "", <<>>, <<>>)

rr_record_input_1(s, call_site, data) ==
    Capture(s, "RR_INPUT_1", call_site, "", <<data>>, <<>>)

rr_record_input_2(s, call_site, data) ==
    Capture(s, "RR_INPUT_2", call_site, "", <<data>>, <<>>)

rr_record_input_4(s, call_site, data) ==
    Capture(s, "RR_INPUT_4", call_site, "", <<data>>, <<>>)

rr_record_input_8(s, call_site, data) ==
    Capture(s, "RR_INPUT_8", call_site, "", <<data>>, <<>>)

\* rr_record_interrupt_request without the comparison against the cache
rr_record_interrupt_request_uncompacted(s, call_site, interrupt_request) ==
    Capture([s EXCEPT !.intr = IF s.log = NoLog THEN s.intr
                               ELSE interrupt_request],
            "RR_INTERRUPT_REQUEST", call_site, "", <<interrupt_request>>, <<>>)

rr_record_interrupt_request(s, call_site, interrupt_request) ==
    IF s.intr # interrupt_request
    THEN Capture([s EXCEPT !.intr = IF s.log = NoLog THEN s.intr
                                    ELSE interrupt_request],
                 "RR_INTERRUPT_REQUEST", call_site, "",
                 <<interrupt_request>>, <<>>)
    ELSE s

\* rr_record_exit_request without the test for zero
rr_record_exit_request_unfiltered(s, call_site, exit_request) ==
    Capture(s, "RR_EXIT_REQUEST", call_site, "", <<exit_request>>, <<>>)

rr_record_exit_request(s, call_site, exit_request) ==
    IF exit_request # 0
    THEN Capture(s, "RR_EXIT_REQUEST", call_site, "", <<exit_request>>, <<>>)
    ELSE s

\* buf holds len bytes; is_write is dropped
rr_record_cpu_mem_rw_call(s, call_site, addr, buf) ==
    Capture(s, "RR_SKIPPED_CALL", call_site, "RR_CALL_CPU_MEM_RW",
            <<addr, Len(buf)>>, buf)

\* crc32 of zlib over the bytes, started from crc32(0, Z_NULL, 0) = 0: a
\* checksum of 16 bits stands for it
RECURSIVE crc32(_, _)
crc32(crc, bytes) ==
    IF bytes = <<>> THEN crc
    ELSE crc32((crc * 31 + bytes[1] + 1) % 65521, Tail(bytes))

\* rr_device_mem_rw_call_record of rr_log.h: the write is recorded at the
\* call-site the caller's macros have left in rr_skipped_callsite_location
rr_device_mem_rw_call_record(s, call_site, addr, buf) ==
    rr_record_cpu_mem_rw_call(s, call_site, addr, buf)

\* the checksum of the i-th region is left as it was
TrackedRegionDone_crc_stale(s, i, crc) == s

\* region->crc = crc
TrackedRegionDone(s, i, crc) ==
    IF ~Running(s) THEN s ELSE [s EXCEPT !.map_list[i].crc = crc]

\* the body of QLIST_FOREACH for the i-th region
TrackedRegion(s, i, call_site) ==
    TrackedRegionDone(
        IF crc32(0, s.map_list[i].ptr) # s.map_list[i].crc
        THEN rr_device_mem_rw_call_record(s, call_site, s.map_list[i].addr,
                                          s.map_list[i].ptr)
        ELSE s,
        i, crc32(0, s.map_list[i].ptr))

RECURSIVE TrackedFrom(_, _, _)
TrackedFrom(s, i, call_site) ==
    IF ~Running(s) \/ i > Len(s.map_list) THEN s
    ELSE TrackedFrom(TrackedRegion(s, i, call_site), i + 1, call_site)

rr_tracked_mem_regions_record(s, call_site) == TrackedFrom(s, 1, call_site)

rr_record_cpu_mem_unmap(s, call_site, addr, buf) ==
    Capture(s, "RR_SKIPPED_CALL", call_site, "RR_CALL_CPU_MEM_UNMAP",
            <<addr, Len(buf)>>, buf)

\* name is the string's bytes, len = strlen(name)
rr_record_memory_region_change(s, call_site, start_addr, size, name, mtype, added) ==
    Capture(s, "RR_SKIPPED_CALL", call_site, "RR_CALL_MEM_REGION_CHANGE",
            <<start_addr, size, Len(name), mtype, IF added THEN 1 ELSE 0>>,
            name)

rr_record_hd_transfer(s, call_site, transfer_type, src_addr, dest_addr, num_bytes) ==
    Capture(s, "RR_SKIPPED_CALL", call_site, "RR_CALL_HD_TRANSFER",
            <<transfer_type, src_addr, dest_addr, num_bytes>>, <<>>)

rr_record_net_transfer(s, call_site, transfer_type, src_addr, dest_addr, num_bytes) ==
    Capture(s, "RR_SKIPPED_CALL", call_site, "RR_CALL_NET_TRANSFER",
            <<transfer_type, src_addr, dest_addr, num_bytes>>, <<>>)

\* buf_addr is the caller's pointer, written with the struct
rr_record_handle_packet_call(s, call_site, buf_addr, buf, direction) ==
    Capture(s, "RR_SKIPPED_CALL", call_site, "RR_CALL_HANDLE_PACKET",
            <<buf_addr, Len(buf), direction>>, buf)

\* rr_record_end_of_log that writes nothing
rr_record_end_of_log_skipped(s) == s

rr_record_end_of_log(s) ==
    Capture(s, "RR_LAST", "RR_CALLSITE_LAST", "", <<>>, <<>>)

\* what *data, *interrupt_request, *exit_request holds when never written
NoValue == -1

(***************************************************************************)
(* LOG MANAGEMENT                                                          *)
(***************************************************************************)
\* fopen(name, "w") and the header, written as zero for now
rr_create_record_log(s) ==
    IF ~Running(s) THEN s
    ELSE [s EXCEPT !.log = NewLog("RECORD"),
                   !.file = PPToBytes(NoLog.last_prog_point),
                   !.written = <<>>]

\* rr_destroy_log that closes a record log without rewriting its header
rr_destroy_log_header_kept(s) ==
    IF ~Running(s) THEN s
    ELSE IF s.log = NoLog THEN Crash(s)
    ELSE [s EXCEPT !.log = NoLog]

\* rewind and rewrite the header of a record log, close, free
rr_destroy_log(s) ==
    IF ~Running(s) THEN s
    ELSE IF s.log = NoLog THEN Crash(s)
    ELSE [s EXCEPT !.file =
                      IF s.log.fp /\ s.log.type = "RECORD"
                      THEN PPToBytes(s.log.last_prog_point)
                               \o SubSeq(s.file, ProgPointSize + 1, Len(s.file))
                      ELSE s.file,
                   !.log = NoLog]

\* cpu_state->rr_guest_instr_count = 0
rr_reset_state(s) ==
    IF ~Running(s) THEN s ELSE [s EXCEPT !.clock.guest_instr_count = 0]

\* rr_mode = mode
SetMode(s, mode) == IF Running(s) THEN [s EXCEPT !.mode = mode] ELSE s

\* what qemu_savevm_state returns: 0, or a negative errno (-EIO)
SnapshotRets == {0, -5}

RR_RECORD_REQUEST == 1

RR_RECORD_FROM_REQUEST == 2

\* return snapshot_ret: initialised to -1, assigned when a snapshot was
\* requested
BeginRecordDone(s, snapshot_ret) ==
    [s |-> s,
     out |-> IF ~Running(s) THEN NoValue
             ELSE IF s.record_requested = 0 THEN -1
             ELSE snapshot_ret]

\* the named snapshot is loaded and its name freed
LoadRequestedSnapshot(s) ==
    IF s.record_requested = RR_RECORD_FROM_REQUEST
    THEN [s EXCEPT !.snapshot_name = ""] ELSE s

\* the snapshot is the host's, snapshot_ret what saving it returned; the
\* log is opened and the mode set whatever it returned: [s, out]
rr_do_begin_record(s, snapshot_ret) ==
    BeginRecordDone(SetMode(rr_reset_state(rr_create_record_log(
                                LoadRequestedSnapshot(s))),
                            "RR_RECORD"),
                    snapshot_ret)

rr_do_end_record(s) ==
    SetMode(rr_destroy_log(rr_record_end_of_log(s)), "RR_OFF")

(***************************************************************************)
(* REPLAY                                                                  *)
(***************************************************************************)
rr_log_is_empty(s) ==
    s.log.type = "REPLAY" /\ s.log.size = s.log.bytes_read

\* rr_replay_finished without the comparison of instruction counts
rr_replay_finished_any_count(s) ==
    IF ~Running(s) THEN [s |-> s, out |-> FALSE]
    ELSE IF s.log = NoLog THEN [s |-> Crash(s), out |-> FALSE]
    ELSE IF ~rr_log_is_empty(s) THEN [s |-> s, out |-> FALSE]
    ELSE IF s.head = NULL THEN [s |-> Crash(s), out |-> FALSE]
    ELSE [s |-> s, out |-> s.shells[s.head].entry.kind = "RR_LAST"]

\* the log is empty, the head is RR_LAST and the guest has reached its
\* instruction count; && evaluates left to right: [s, out]
rr_replay_finished(s) ==
    IF ~Running(s) THEN [s |-> s, out |-> FALSE]
    ELSE IF s.log = NoLog THEN [s |-> Crash(s), out |-> FALSE]
    ELSE IF ~rr_log_is_empty(s) THEN [s |-> s, out |-> FALSE]
    ELSE IF s.head = NULL THEN [s |-> Crash(s), out |-> FALSE]
    ELSE [s |-> s,
          out |-> /\ s.shells[s.head].entry.kind = "RR_LAST"
                  /\ rr_prog_point(s).guest_instr_count >=
                         s.shells[s.head].entry.prog_point.guest_instr_count]

\* g_free of the buffer the entry owns, for three of the sub-kinds
free_entry_params(entry) ==
    IF /\ entry.kind = "RR_SKIPPED_CALL"
       /\ entry.call_kind \in {"RR_CALL_CPU_MEM_RW", "RR_CALL_CPU_MEM_UNMAP",
                               "RR_CALL_HANDLE_PACKET"}
    THEN [entry EXCEPT !.buf = <<>>]
    ELSE entry

\* the shell p goes to the front of the recycle list
add_to_recycle_list(s, p) ==
    [s EXCEPT !.shells[p] =
                  [entry |-> free_entry_params(s.shells[p].entry),
                   next |-> IF s.recycle = NULL THEN s.shells[p].next
                            ELSE s.recycle],
              !.recycle = p]

\* a shell from the recycle list, or a new one from the heap; the item is
\* copied into it (*result = item, item.next = NULL): [s, p]
alloc_new_entry(s, item) ==
    IF s.recycle # NULL
    THEN [s |-> [s EXCEPT !.recycle = s.shells[s.recycle].next,
                          !.shells[s.recycle] = [entry |-> item,
                                                 next |-> NULL]],
          p |-> s.recycle]
    ELSE [s |-> [s EXCEPT !.shells = Append(s.shells, [entry |-> item,
                                                       next |-> NULL])],
          p |-> Len(s.shells) + 1]

\* rr_size_of_log_entries[k] += size, then rr_number_of_log_entries[k]++,
\* with k = RR_LAST behind the end of both arrays
CountedBehind(s, size) ==
    IF s.layout = "packed"
    THEN [s EXCEPT !.maxq = s.maxq + size, !.sizes[0] = s.sizes[0] + 1]
    ELSE [s EXCEPT !.sizes[EnumCode(LogEntryKinds, "RR_LAST")] =
                       s.sizes[EnumCode(LogEntryKinds, "RR_LAST")] + size,
                   !.num[EnumCode(LogEntryKinds, "RR_LAST")] =
                       s.num[EnumCode(LogEntryKinds, "RR_LAST")] + 1]

\* the counters and the log's position once the entry d is decoded; k is
\* the kind, used as the index
Counted(s, d, k) ==
    IF k < EnumCode(LogEntryKinds, "RR_LAST")
    THEN [s EXCEPT !.log.bytes_read = d.pos,
                   !.log.item_number = s.log.item_number + 1,
                   !.sizes[k] = s.sizes[k] + (d.pos - s.log.bytes_read),
                   !.num[k] = s.num[k] + 1]
    ELSE CountedBehind([s EXCEPT !.log.bytes_read = d.pos,
                                 !.log.item_number = s.log.item_number + 1],
                       d.pos - s.log.bytes_read)

\* what was decoded goes into a shell even when an rr_assert failed
ReadDecoded_partial_kept(s, d) ==
    alloc_new_entry(Counted(s, d, EnumCode(LogEntryKinds, d.entry.kind)),
                    d.entry)

\* the rr_assert of the decoding ends the call; otherwise the counters
\* are updated and the item copied into a shell
ReadDecoded(s, d) ==
    IF ~d.ok
    THEN [s |-> Abort([s EXCEPT !.log.bytes_read = d.pos]), p |-> NULL]
    ELSE alloc_new_entry(Counted(s, d, EnumCode(LogEntryKinds, d.entry.kind)),
                         d.entry)

\* the next entry of the file, in a shell: [s, p]
rr_read_item(s) ==
    IF ~rr_in_replay(s) \/ rr_log_is_empty(s) \/ ~s.log.fp
    THEN [s |-> Abort(s), p |-> NULL]
    ELSE ReadDecoded(s, DecodeItem(s.file, s.log.bytes_read))

\* the cutoff test with the skipped calls of the main loop left out
IsBoundary_interrupt_only(entry) == entry.kind = "RR_INTERRUPT_REQUEST"

\* the entries rr_fill_queue stops after
IsBoundary(entry) ==
    \/ /\ entry.kind = "RR_SKIPPED_CALL"
       /\ entry.callsite_loc = "RR_CALLSITE_MAIN_LOOP_WAIT"
    \/ entry.kind = "RR_INTERRUPT_REQUEST"

\* the cutoff test without the cap on the entries read
FillCutoff_uncapped(entry, num_entries) == IsBoundary(entry)

FillCutoff(entry, num_entries) ==
    IsBoundary(entry) \/ num_entries > RR_MAX_QUEUE_LEN

\* the shell p goes to the front of the queue
Enqueue_at_head(s, p) ==
    IF s.head = NULL
    THEN [s EXCEPT !.head = p, !.tail = p]
    ELSE [s EXCEPT !.shells[p].next = s.head, !.head = p]

\* the shell p goes to the end of the queue
Enqueue(s, p) ==
    IF s.head = NULL
    THEN [s EXCEPT !.head = p, !.tail = p]
    ELSE [s EXCEPT !.shells[s.tail].next = p, !.tail = p]

\* the while loop of rr_fill_queue: [s, num_entries]
RECURSIVE FillLoop(_, _)
FillAppend(r, num_entries) ==
    IF ~Running(r.s) THEN [s |-> r.s, num_entries |-> num_entries - 1]
    ELSE IF FillCutoff(r.s.shells[r.p].entry, num_entries)
    THEN [s |-> Enqueue(r.s, r.p), num_entries |-> num_entries]
    ELSE FillLoop(Enqueue(r.s, r.p), num_entries)

FillLoop(s, num_entries) ==
    IF rr_log_is_empty(s) THEN [s |-> s, num_entries |-> num_entries]
    ELSE FillAppend(rr_read_item(s), num_entries + 1)

\* what a call of rr_fill_queue that read from offset start returned with
FillReport(start, s, num_entries, q) ==
    [called |-> TRUE,
     num_entries |-> num_entries,
     log_empty |-> rr_log_is_empty(s),
     tail_kind |-> IF q = <<>> THEN "" ELSE q[Len(q)].kind,
     tail_callsite |-> IF q = <<>> THEN "" ELSE q[Len(q)].callsite_loc,
     bytes |-> s.log.bytes_read - start,
     queue_len |-> Len(q)]

\* the statistics after the loop
FillDone(start, r) ==
    IF ~Running(r.s) THEN r.s
    ELSE [r.s EXCEPT
             !.maxq = IF r.num_entries > r.s.maxq
                      THEN r.num_entries ELSE r.s.maxq,
             !.fill = FillReport(start, r.s, r.num_entries, QueueOf(r.s))]

rr_fill_queue(s) ==
    IF ~Running(s) THEN s
    ELSE IF ~(s.head = NULL /\ s.tail = NULL) THEN Abort(s)
    ELSE IF s.log = NoLog THEN Crash(s)
    ELSE FillDone(s.log.bytes_read, FillLoop(s, 0))

\* the head leaves the queue with its next link left as it was
Detach_next_kept(s) ==
    [s EXCEPT !.head = s.shells[s.head].next,
              !.tail = IF s.head = s.tail THEN NULL ELSE s.tail]

\* the head leaves the queue
Detach(s) ==
    [s EXCEPT !.head = s.shells[s.head].next,
              !.shells[s.head].next = NULL,
              !.tail = IF s.head = s.tail THEN NULL ELSE s.tail]

\* the while loop of get_next_entry that drops leading RR_DEBUG entries
RECURSIVE SkipDebug(_)
SkipDebug(s) ==
    IF s.head # NULL /\ s.shells[s.head].entry.kind = "RR_DEBUG"
    THEN SkipDebug(Detach(s))
    ELSE s

\* get_next_entry without the comparison of program points
HeadIsDue_unchecked(now, head, kind) == TRUE

\* the head is taken as due: recorded at instruction 0, or the comparison
\* says so
HeadIsDue(now, head, kind) ==
    \/ head.prog_point.guest_instr_count = 0
    \/ rr_prog_point_compare(now, head.prog_point, kind) = 0

\* the checks on the head without the comparison of kinds
TakeHead_any_kind(s, head, kind, call_site, check_callsite) ==
    IF ~HeadIsDue(rr_prog_point(s), head, kind) THEN [s |-> s, p |-> NULL]
    ELSE IF check_callsite /\ head.callsite_loc # call_site
    THEN [s |-> s, p |-> NULL]
    ELSE [s |-> [Detach(s) EXCEPT !.given = Append(s.given, head),
                                  !.delivered = Append(s.delivered, head)],
          p |-> s.head]

\* the checks on the head, and its removal: [s, p]
TakeHead(s, head, kind, call_site, check_callsite) ==
    IF ~HeadIsDue(rr_prog_point(s), head, kind) THEN [s |-> s, p |-> NULL]
    ELSE IF head.kind # kind THEN [s |-> s, p |-> NULL]
    ELSE IF check_callsite /\ head.callsite_loc # call_site
    THEN [s |-> s, p |-> NULL]
    ELSE [s |-> [Detach(s) EXCEPT !.given = Append(s.given, head),
                                  !.delivered = Append(s.delivered, head)],
          p |-> s.head]

\* RR_log_entry head = *rr_queue_head, after the RR_DEBUG entries are gone
ExamineHead(s, kind, call_site, check_callsite) ==
    IF s.head = NULL THEN [s |-> Crash(s), p |-> NULL]
    ELSE TakeHead(s, s.shells[s.head].entry, kind, call_site, check_callsite)

\* the leading RR_DEBUG entries dropped whatever kind is asked for
SkipDebugFor_every_kind(s, kind) == SkipDebug(s)

\* the loop runs unless an interrupt request or a skipped call is asked for
SkipDebugFor(s, kind) ==
    IF kind \notin {"RR_INTERRUPT_REQUEST", "RR_SKIPPED_CALL"}
    THEN SkipDebug(s) ELSE s

\* the queue was empty and rr_fill_queue has run
Refilled(s, kind, call_site, check_callsite) ==
    IF ~Running(s) \/ s.head = NULL THEN [s |-> s, p |-> NULL]
    ELSE ExamineHead(SkipDebugFor(s, kind), kind, call_site, check_callsite)

\* get_next_entry giving up on an empty queue without rr_fill_queue
get_next_entry_no_refill(s, kind, call_site, check_callsite) ==
    IF ~Running(s) \/ s.head = NULL THEN [s |-> s, p |-> NULL]
    ELSE ExamineHead(SkipDebugFor(s, kind), kind, call_site, check_callsite)

\* [s, p]: p is the detached head, or NULL
get_next_entry(s, kind, call_site, check_callsite) ==
    IF ~Running(s) THEN [s |-> s, p |-> NULL]
    ELSE IF s.head = NULL
    THEN Refilled(rr_fill_queue(s), kind, call_site, check_callsite)
    ELSE ExamineHead(SkipDebugFor(s, kind), kind, call_site, check_callsite)

\* rr_replay_debug without the test of the head's kind
rr_replay_debug_any_kind(s, call_site) ==
    IF ~Running(s) \/ s.head = NULL THEN s
    ELSE IF s.shells[s.head].entry.prog_point.guest_instr_count
                > rr_prog_point(s).guest_instr_count
    THEN s
    ELSE add_to_recycle_list(
             [Detach(s) EXCEPT !.given = Append(s.given,
                                                s.shells[s.head].entry)],
             s.head)

rr_replay_debug(s, call_site) ==
    IF ~Running(s) \/ s.head = NULL THEN s
    ELSE IF s.shells[s.head].entry.kind # "RR_DEBUG" THEN s
    ELSE IF s.shells[s.head].entry.prog_point.guest_instr_count
                > rr_prog_point(s).guest_instr_count
    THEN s
    ELSE add_to_recycle_list(
             [Detach(s) EXCEPT !.given = Append(s.given,
                                                s.shells[s.head].entry)],
             s.head)

\* the replay of an input without the final check of the call-site
InputTaken_any_callsite(g, call_site) ==
    IF ~Running(g.s) THEN [s |-> g.s, out |-> NoValue]
    ELSE IF g.p = NULL THEN [s |-> Abort(g.s), out |-> NoValue]
    ELSE [s |-> add_to_recycle_list(g.s, g.p),
          out |-> g.s.shells[g.p].entry.args[1]]

\* the body rr_replay_input_1, _2, _4 and _8 share, on what get_next_entry
\* returned: [s, out]
InputTaken(g, call_site) ==
    IF ~Running(g.s) THEN [s |-> g.s, out |-> NoValue]
    ELSE IF g.p = NULL THEN [s |-> Abort(g.s), out |-> NoValue]
    ELSE IF g.s.shells[g.p].entry.callsite_loc # call_site
    THEN [s |-> Abort(g.s), out |-> NoValue]
    ELSE [s |-> add_to_recycle_list(g.s, g.p),
          out |-> g.s.shells[g.p].entry.args[1]]

rr_replay_input_1(s, call_site) ==
    InputTaken(get_next_entry(s, "RR_INPUT_1", call_site, FALSE), call_site)

rr_replay_input_2(s, call_site) ==
    InputTaken(get_next_entry(s, "RR_INPUT_2", call_site, FALSE), call_site)

rr_replay_input_4(s, call_site) ==
    InputTaken(get_next_entry(s, "RR_INPUT_4", call_site, FALSE), call_site)

rr_replay_input_8(s, call_site) ==
    InputTaken(get_next_entry(s, "RR_INPUT_8", call_site, FALSE), call_site)

\* *interrupt_request = panda_current_interrupt_request
InterruptOut(s) == [s |-> s, out |-> IF Running(s) THEN s.intr ELSE NoValue]

InterruptTaken(g) ==
    IF Running(g.s) /\ g.p # NULL
    THEN InterruptOut(rr_fill_queue(add_to_recycle_list(
             [g.s EXCEPT !.intr = g.s.shells[g.p].entry.args[1]], g.p)))
    ELSE InterruptOut(g.s)

\* rr_replay_interrupt_request asking get_next_entry not to compare the
\* call-sites
rr_replay_interrupt_request_any_callsite(s, call_site) ==
    InterruptTaken(get_next_entry(s, "RR_INTERRUPT_REQUEST", call_site, FALSE))

rr_replay_interrupt_request(s, call_site) ==
    InterruptTaken(get_next_entry(s, "RR_INTERRUPT_REQUEST", call_site, TRUE))

\* the replay of an exit request without the check of the call-site
ExitTaken_any_callsite(g, call_site) ==
    IF ~Running(g.s) THEN [s |-> g.s, out |-> NoValue]
    ELSE IF g.p = NULL THEN [s |-> g.s, out |-> 0]
    ELSE [s |-> add_to_recycle_list(g.s, g.p),
          out |-> g.s.shells[g.p].entry.args[1]]

\* the body of rr_replay_exit_request on what get_next_entry returned:
\* [s, out]
ExitTaken(g, call_site) ==
    IF ~Running(g.s) THEN [s |-> g.s, out |-> NoValue]
    ELSE IF g.p = NULL THEN [s |-> g.s, out |-> 0]
    ELSE IF g.s.shells[g.p].entry.callsite_loc # call_site
    THEN [s |-> Abort(g.s), out |-> NoValue]
    ELSE [s |-> add_to_recycle_list(g.s, g.p),
          out |-> g.s.shells[g.p].entry.args[1]]

rr_replay_exit_request(s, call_site) ==
    ExitTaken(get_next_entry(s, "RR_EXIT_REQUEST", call_site, FALSE),
              call_site)

\* the sub-kinds the switch of rr_replay_skipped_calls_internal applies
SkippedCallApplies(entry) ==
    entry.call_kind \in {"RR_CALL_CPU_MEM_RW", "RR_CALL_MEM_REGION_CHANGE",
                         "RR_CALL_CPU_MEM_UNMAP"}

\* cpu_physical_memory_rw(addr, buf, len, is_write = 1) of the host: the
\* len bytes of buf are in guest physical memory from addr on
cpu_physical_memory_rw(mem, addr, buf, len) ==
    [a \in DOMAIN mem \cup addr..(addr + len - 1) |->
        IF a \in addr..(addr + len - 1) THEN buf[a - addr + 1] ELSE mem[a]]

\* cpu_physical_memory_map, memcpy of len bytes, cpu_physical_memory_unmap
\* of the host: the bytes are in guest physical memory from addr on
cpu_physical_memory_unmap(mem, addr, buf, len) ==
    [a \in DOMAIN mem \cup addr..(addr + len - 1) |->
        IF a \in addr..(addr + len - 1) THEN buf[a - addr + 1] ELSE mem[a]]

\* the switch with the case of RR_CALL_CPU_MEM_UNMAP doing nothing
ApplySkippedCall_unmap_dropped(s, entry) ==
    IF entry.call_kind = "RR_CALL_CPU_MEM_RW"
    THEN [s EXCEPT !.mem = cpu_physical_memory_rw(s.mem, entry.args[1],
                                                  entry.buf, entry.args[2])]
    ELSE s

\* the cases of the switch on args.kind; a change of memory regions leaves
\* the bytes of guest memory as they are
ApplySkippedCall(s, entry) ==
    IF entry.call_kind = "RR_CALL_CPU_MEM_RW"
    THEN [s EXCEPT !.mem = cpu_physical_memory_rw(s.mem, entry.args[1],
                                                  entry.buf, entry.args[2])]
    ELSE IF entry.call_kind = "RR_CALL_CPU_MEM_UNMAP"
    THEN [s EXCEPT !.mem = cpu_physical_memory_unmap(s.mem, entry.args[1],
                                                     entry.buf, entry.args[2])]
    ELSE s

\* the refill after a skipped call is recycled
SkippedCallRefill(s, call_site) ==
    IF call_site = "RR_CALLSITE_MAIN_LOOP_WAIT" /\ s.head = NULL
    THEN rr_fill_queue(s) ELSE s

RECURSIVE rr_replay_skipped_calls_internal(_, _)
\* the loop left after the first skipped call is applied
SkippedCallTaken_once(g, call_site) ==
    IF ~Running(g.s) \/ g.p = NULL THEN g.s
    ELSE IF ~SkippedCallApplies(g.s.shells[g.p].entry) THEN Abort(g.s)
    ELSE SkippedCallRefill(
             add_to_recycle_list(ApplySkippedCall(g.s, g.s.shells[g.p].entry),
                                 g.p),
             call_site)

\* one turn of the do-while loop on what get_next_entry returned
SkippedCallTaken(g, call_site) ==
    IF ~Running(g.s) \/ g.p = NULL THEN g.s
    ELSE IF ~SkippedCallApplies(g.s.shells[g.p].entry) THEN Abort(g.s)
    ELSE rr_replay_skipped_calls_internal(
             SkippedCallRefill(
                 add_to_recycle_list(
                     ApplySkippedCall(g.s, g.s.shells[g.p].entry), g.p),
                 call_site),
             call_site)

rr_replay_skipped_calls_internal(s, call_site) ==
    SkippedCallTaken(get_next_entry(s, "RR_SKIPPED_CALL", call_site, FALSE),
                     call_site)

\* fopen(name, "r"), the size from stat, and the header read
rr_create_replay_log(s) ==
    IF ~Running(s) THEN s
    ELSE IF ~rr_fread(s.file, 0, ProgPointSize, 1)
    THEN Abort([s EXCEPT !.log = [NewLog("REPLAY") EXCEPT
                                     !.size = Len(s.file),
                                     !.bytes_read = ProgPointSize]])
    ELSE [s EXCEPT !.log = [NewLog("REPLAY") EXCEPT
                               !.size = Len(s.file),
                               !.bytes_read = ProgPointSize,
                               !.last_prog_point =
                                   PPFromBytes(SubSeq(s.file, 1,
                                                      ProgPointSize))]]

\* return 0 once the queue is filled
BeginReplayDone(s) == [s |-> s, out |-> IF Running(s) THEN 0 ELSE NoValue]

\* rr_do_begin_replay going on after qemu_loadvm_state failed
rr_do_begin_replay_load_unchecked(s, snapshot) ==
    IF ~Running(s) THEN [s |-> s, out |-> NoValue]
    ELSE IF snapshot = "missing" THEN [s |-> Abort(s), out |-> NoValue]
    ELSE BeginReplayDone(rr_fill_queue(
             SetMode(rr_reset_state(rr_create_replay_log(s)), "RR_REPLAY")))

\* snapshot: how opening and loading the snapshot went
rr_do_begin_replay(s, snapshot) ==
    IF ~Running(s) THEN [s |-> s, out |-> NoValue]
    ELSE IF snapshot = "missing" THEN [s |-> Abort(s), out |-> NoValue]
    ELSE IF snapshot = "load_failed" THEN [s |-> s, out |-> -2]
    ELSE BeginReplayDone(rr_fill_queue(
             SetMode(rr_reset_state(rr_create_replay_log(s)), "RR_REPLAY")))

\* the heap once the shells at the pointers freed are released
FreeShells(sh, kept) ==
    [i \in 1..Len(kept) |-> [sh[kept[i]] EXCEPT !.next = NULL]]

NotFreed(sh, freed) ==
    SelectSeq([i \in 1..Len(sh) |-> i],
              LAMBDA i : \A j \in 1..Len(freed) : freed[j] # i)

\* panda_cleanup and abort, or qemu_system_shutdown_request
EndReplayExit(s, is_error) ==
    IF ~Running(s) THEN s
    ELSE [s EXCEPT !.mode = "RR_OFF",
                   !.status = IF is_error THEN "aborted" ELSE "shutdown"]

\* rr_do_end_replay without the loop that frees the queue
rr_do_end_replay_queue_kept(s, is_error) ==
    IF ~Running(s) THEN s
    ELSE EndReplayExit(
             rr_destroy_log(
                 [s EXCEPT
                     !.num = [k \in DOMAIN s.num |->
                                 IF k < EnumCode(LogEntryKinds, "RR_LAST")
                                 THEN 0 ELSE s.num[k]],
                     !.sizes = [k \in DOMAIN s.sizes |->
                                   IF k < EnumCode(LogEntryKinds, "RR_LAST")
                                   THEN 0 ELSE s.sizes[k]],
                     !.maxq = 0,
                     !.recycle = NULL,
                     !.shells =
                         FreeShells(s.shells,
                             NotFreed(s.shells,
                                 ListFrom(s.shells, s.recycle,
                                          Len(s.shells))))]),
             is_error)

\* the counters are zeroed, both lists freed, the log closed; the shells
\* neither list holds stay allocated
rr_do_end_replay(s, is_error) ==
    IF ~Running(s) THEN s
    ELSE EndReplayExit(
             rr_destroy_log(
                 [s EXCEPT
                     !.num = [k \in DOMAIN s.num |->
                                 IF k < EnumCode(LogEntryKinds, "RR_LAST")
                                 THEN 0 ELSE s.num[k]],
                     !.sizes = [k \in DOMAIN s.sizes |->
                                   IF k < EnumCode(LogEntryKinds, "RR_LAST")
                                   THEN 0 ELSE s.sizes[k]],
                     !.maxq = 0,
                     !.recycle = NULL, !.head = NULL, !.tail = NULL,
                     !.shells =
                         FreeShells(s.shells,
                             NotFreed(s.shells,
                                 ListFrom(s.shells, s.recycle, Len(s.shells))
                                     \o ListFrom(s.shells, s.head,
                                                 Len(s.shells))))]),
             is_error)

(***************************************************************************)
(* QMP commands: they leave a request for the main loop.                   *)
(***************************************************************************)
qmp_begin_record(s, file_name) ==
    [s EXCEPT !.record_requested = RR_RECORD_REQUEST,
              !.requested_name = file_name]

qmp_begin_record_from(s, snapshot, file_name) ==
    [s EXCEPT !.record_requested = RR_RECORD_FROM_REQUEST,
              !.snapshot_name = snapshot,
              !.requested_name = file_name]

\* qmp_stop pauses the guest; it is the host's
qmp_end_record(s) == [s EXCEPT !.end_record_requested = 1]

\* qmp_end_replay ending the replay itself
qmp_end_replay_at_once(s) ==
    rr_do_end_replay([s EXCEPT !.end_replay_requested = 1], FALSE)

qmp_end_replay(s) == [s EXCEPT !.end_replay_requested = 1]

panda_end_replay(s) == [s EXCEPT !.end_replay_requested = 1]

(***************************************************************************)
(* The host: the guest clock, the monitor, the devices and the CPU loop    *)
(* that call in.                                                           *)
(***************************************************************************)
Init ==
    /\ rr_mode = "RR_OFF"
    /\ clock = ZeroPP
    /\ file = <<>>
    /\ rr_nondet_log = NoLog
    /\ panda_current_interrupt_request = 0
    /\ shells = <<>>
    /\ rr_queue_head = NULL
    /\ rr_queue_tail = NULL
    /\ recycle_list = NULL
    /\ rr_number_of_log_entries = ZeroCounters
    /\ rr_size_of_log_entries = ZeroCounters
    /\ rr_max_num_queue_entries = 0
    /\ status = "running"
    /\ written = <<>>
    /\ fill_ret = NoFill
    /\ observed = <<>>
    /\ mirror = 0
    /\ delivered = <<>>
    /\ rr_record_requested = 0
    /\ rr_end_record_requested = 0
    /\ rr_end_replay_requested = 0
    /\ rr_requested_name = ""
    /\ rr_snapshot_name = ""
    /\ rr_map_list = <<>>
    /\ guest_mem = <<>>
    /\ globals_layout \in GlobalsLayouts
    /\ skipped_calls_pc = ""

\* a call into the module: the function, its call-site and arguments
CallOf(fn, call_site, args, buf) ==
    [fn |-> fn, call_site |-> call_site, args |-> args, buf |-> buf]

Ret(s) == [s |-> s, out |-> NoValue]

\* the call c made in state s: [s, out]
Call(s, c) ==
    CASE c.fn = "rr_record_debug" -> Ret(rr_record_debug(s, c.call_site))
      [] c.fn = "rr_record_input_1" ->
           Ret(rr_record_input_1(s, c.call_site, c.args[1]))
      [] c.fn = "rr_record_input_2" ->
           Ret(rr_record_input_2(s, c.call_site, c.args[1]))
      [] c.fn = "rr_record_input_4" ->
           Ret(rr_record_input_4(s, c.call_site, c.args[1]))
      [] c.fn = "rr_record_input_8" ->
           Ret(rr_record_input_8(s, c.call_site, c.args[1]))
      [] c.fn = "rr_record_interrupt_request" ->
           Ret(rr_record_interrupt_request(s, c.call_site, c.args[1]))
      [] c.fn = "rr_record_exit_request" ->
           Ret(rr_record_exit_request(s, c.call_site, c.args[1]))
      [] c.fn = "rr_record_cpu_mem_rw_call" ->
           Ret(rr_record_cpu_mem_rw_call(s, c.call_site, c.args[1], c.buf))
      [] c.fn = "rr_record_cpu_mem_unmap" ->
           Ret(rr_record_cpu_mem_unmap(s, c.call_site, c.args[1], c.buf))
      [] c.fn = "rr_record_memory_region_change" ->
           Ret(rr_record_memory_region_change(s, c.call_site, c.args[1],
                   c.args[2], c.buf, c.args[3], c.args[4] = 1))
      [] c.fn = "rr_record_hd_transfer" ->
           Ret(rr_record_hd_transfer(s, c.call_site, c.args[1], c.args[2],
                                     c.args[3], c.args[4]))
      [] c.fn = "rr_record_net_transfer" ->
           Ret(rr_record_net_transfer(s, c.call_site, c.args[1], c.args[2],
                                      c.args[3], c.args[4]))
      [] c.fn = "rr_record_handle_packet_call" ->
           Ret(rr_record_handle_packet_call(s, c.call_site, c.args[1], c.buf,
                                            c.args[2]))
      [] c.fn = "rr_replay_debug" -> Ret(rr_replay_debug(s, c.call_site))
      [] c.fn = "rr_replay_input_1" -> rr_replay_input_1(s, c.call_site)
      [] c.fn = "rr_replay_input_2" -> rr_replay_input_2(s, c.call_site)
      [] c.fn = "rr_replay_input_4" -> rr_replay_input_4(s, c.call_site)
      [] c.fn = "rr_replay_input_8" -> rr_replay_input_8(s, c.call_site)
      [] c.fn = "rr_replay_interrupt_request" ->
           rr_replay_interrupt_request(s, c.call_site)
      [] c.fn = "rr_replay_exit_request" ->
           rr_replay_exit_request(s, c.call_site)
      [] c.fn = "rr_replay_skipped_calls_internal" ->
           Ret(rr_replay_skipped_calls_internal(s, c.call_site))

\* the values the devices hand to the capture functions
InputCallSites == {"RR_CALLSITE_IO_READ", "RR_CALLSITE_CPU_HANDLE_INTERRUPT"}

DeviceCallSites == {"RR_CALLSITE_MAIN_LOOP_WAIT", "RR_CALLSITE_IO_READ"}

InterruptValues == {0, 2}

ExitValues == {0, 1}

InputCalls ==
    {CallOf("rr_record_input_1", cs, <<66>>, <<>>) : cs \in InputCallSites}
        \cup {CallOf("rr_record_input_2", "RR_CALLSITE_IO_READ",
                     <<4660>>, <<>>),
              CallOf("rr_record_input_4", "RR_CALLSITE_IO_READ",
                     <<305419896>>, <<>>),
              CallOf("rr_record_input_8", "RR_CALLSITE_IO_READ",
                     <<16909060>>, <<>>)}

InterruptCalls ==
    {CallOf("rr_record_interrupt_request", "RR_CALLSITE_CPU_HANDLE_INTERRUPT",
            <<v>>, <<>>) : v \in InterruptValues}

ExitCalls ==
    {CallOf("rr_record_exit_request", "RR_CALLSITE_CPU_HANDLE_INTERRUPT",
            <<v>>, <<>>) : v \in ExitValues}

DebugCalls ==
    {CallOf("rr_record_debug", "RR_CALLSITE_CPU_HANDLE_INTERRUPT", <<>>, <<>>)}

MemRwCalls ==
    {CallOf("rr_record_cpu_mem_rw_call", cs, <<4096>>, <<7, 9>>) :
         cs \in DeviceCallSites}

DeviceCalls ==
    {CallOf("rr_record_cpu_mem_unmap", "RR_CALLSITE_IO_READ",
            <<8192>>, <<5>>),
     CallOf("rr_record_memory_region_change", "RR_CALLSITE_MAIN_LOOP_WAIT",
            <<4096, 256, 1, 1>>, <<114, 97, 109>>),
     CallOf("rr_record_hd_transfer", "RR_CALLSITE_IO_READ",
            <<1, 4096, 8192, 512>>, <<>>),
     CallOf("rr_record_net_transfer", "RR_CALLSITE_IO_READ",
            <<2, 4096, 8192, 64>>, <<>>),
     CallOf("rr_record_handle_packet_call", "RR_CALLSITE_IO_READ",
            <<24576, 1>>, <<170, 187>>)}

\* every capture function, for the record sessions
RecordCalls ==
    InputCalls \cup InterruptCalls \cup ExitCalls \cup DebugCalls
        \cup MemRwCalls \cup DeviceCalls

\* the guest executes: the program point moves forward
Tick ==
    /\ status = "running"
    /\ rr_mode # "RR_OFF"
    /\ \E pp \in ProgPoints : PPLess(clock, pp) /\ clock' = pp
    /\ UNCHANGED <<rr_mode, file, rr_nondet_log,
                   panda_current_interrupt_request, shells, rr_queue_head,
                   rr_queue_tail, recycle_list, rr_number_of_log_entries,
                   rr_size_of_log_entries, rr_max_num_queue_entries, status,
                   written, fill_ret, observed, mirror, delivered,
                   rr_record_requested, rr_end_record_requested,
                   rr_end_replay_requested, rr_requested_name,
                   rr_snapshot_name, rr_map_list, guest_mem,
                   globals_layout, skipped_calls_pc>>

BeginRecord ==
    /\ status = "running"
    /\ rr_mode = "RR_OFF"
    /\ file = <<>>
    /\ \E snapshot_ret \in SnapshotRets :
           Commit(rr_do_begin_record(St, snapshot_ret).s)

\* a capture function is called during a record session
RecordStep(calls) ==
    /\ status = "running"
    /\ rr_mode = "RR_RECORD"
    /\ Len(written) < MaxItems
    /\ \E c \in calls : Commit(Call(St, c).s)

EndRecord ==
    /\ status = "running"
    /\ rr_mode = "RR_RECORD"
    /\ Commit(rr_do_end_record(St))

BeginReplay ==
    /\ status = "running"
    /\ rr_mode = "RR_OFF"
    /\ file # <<>>
    /\ \E snapshot \in {"ok", "missing", "load_failed"} :
           Commit(rr_do_begin_replay(St, snapshot).s)

\* a replay function is called during a replay session
ReplayStep(calls) ==
    /\ status = "running"
    /\ rr_mode = "RR_REPLAY"
    /\ \E c \in calls : Commit(Call(St, c).s)

EndReplay ==
    /\ status = "running"
    /\ rr_mode = "RR_REPLAY"
    /\ \E is_error \in BOOLEAN : Commit(rr_do_end_replay(St, is_error))

\* record sessions with every capture function
NextRecord ==
    \/ Tick
    \/ BeginRecord
    \/ RecordStep(RecordCalls)
    \/ EndRecord

SpecRecord == Init /\ [][NextRecord]_vars

(***************************************************************************)
(* Properties of the record side, under SpecRecord.                        *)
(***************************************************************************)
\* the entries of the log file as rr_read_item decodes them
Log == DecodeLog(file)

NonDecreasing(entries) ==
    \A i \in 1..(Len(entries) - 1) :
        PPLeq(entries[i].prog_point, entries[i + 1].prog_point)

\* C1: in the log of a record session, whose clock never goes back, every
\* entry's program point is greater than or equal to the program point of
\* the entry written before it, in the lexicographic order.
C1_NonDecreasingProgPoints == NonDecreasing(Log)

\* a log holds two entries written at different program points
C1_Witness ==
    /\ Len(Log) >= 2
    /\ PPLess(Log[1].prog_point, Log[2].prog_point)
    /\ Log[1].prog_point.guest_instr_count > 0

OneFinalLast(entries, count, now) ==
    /\ Len(entries) = count
    /\ count >= 1
    /\ entries[count].kind = "RR_LAST"
    /\ entries[count].prog_point = now
    /\ \A i \in 1..(count - 1) : entries[i].kind # "RR_LAST"

EndRecordWritesLast(s, now) ==
    /\ Running(s)
    /\ Len(s.file) = Len(file) + HeaderSize
    /\ OneFinalLast(DecodeLog(s.file), Len(s.written), now)

\* C2: whatever a record session has written, rr_do_end_record leaves a log
\* with exactly one RR_LAST entry, which is the final entry and carries the
\* program point of the guest at the call.
C2_OneFinalLast ==
    (rr_mode = "RR_RECORD" /\ status = "running")
        => EndRecordWritesLast(rr_do_end_record(St), clock)

\* rr_do_end_record has closed a log that holds entries before RR_LAST
C2_Witness ==
    /\ rr_mode = "RR_OFF"
    /\ status = "running"
    /\ Len(Log) = MaxItems + 1
    /\ Log[Len(Log)].kind = "RR_LAST"
    /\ Log[Len(Log)].prog_point = clock
    /\ clock.guest_instr_count > 0

ValuesOf(entries, kind) ==
    SelectSeq(entries, LAMBDA e : e.kind = kind)

NoRepeatedValue(entries) ==
    \A i \in 1..(Len(entries) - 1) : entries[i].args # entries[i + 1].args

WritesEntry(s) == Len(s.file) > Len(file)

\* C3: rr_record_interrupt_request writes an entry only when the value
\* differs from the cached one, so two RR_INTERRUPT_REQUEST entries that
\* follow each other among those of the log never carry the same value.
C3_InterruptCompaction ==
    /\ NoRepeatedValue(ValuesOf(Log, "RR_INTERRUPT_REQUEST"))
    /\ (rr_mode = "RR_RECORD" /\ status = "running")
           => \A c \in InterruptCalls :
                  WritesEntry(Call(St, c).s)
                      <=> c.args[1] # panda_current_interrupt_request

\* a log holds two interrupt requests
C3_Witness == Len(ValuesOf(Log, "RR_INTERRUPT_REQUEST")) >= 2

\* C4: rr_record_exit_request writes an entry if and only if the value is
\* not zero, so no RR_EXIT_REQUEST entry of a log carries 0.
C4_ExitRequestNonZero ==
    /\ \A i \in 1..Len(Log) :
           Log[i].kind = "RR_EXIT_REQUEST" => Log[i].args # <<0>>
    /\ (rr_mode = "RR_RECORD" /\ status = "running")
           => \A c \in ExitCalls :
                  WritesEntry(Call(St, c).s) <=> c.args[1] # 0

\* a log holds an exit request
C4_Witness == Len(ValuesOf(Log, "RR_EXIT_REQUEST")) >= 1

\* C5: decoding a log with successive rr_read_item calls yields the entries
\* the record session wrote, in order and field by field, variable-length
\* bytes included, and ends with RR_LAST once the session has ended.
C5_RoundTrip ==
    status = "running"
        => /\ Log = written
           /\ (rr_mode = "RR_OFF" /\ file # <<>>)
                  => Log[Len(Log)].kind = "RR_LAST"

\* an ended session's log holds a skipped call with its bytes
C5_Witness ==
    /\ rr_mode = "RR_OFF"
    /\ status = "running"
    /\ \E i \in 1..Len(Log) :
           Log[i].kind = "RR_SKIPPED_CALL" /\ Len(Log[i].buf) > 0
    /\ Log[Len(Log)].kind = "RR_LAST"

(***************************************************************************)
(* Record sessions followed by a replay of their log.                      *)
(***************************************************************************)
\* what the sessions that get replayed record: an input, the interrupt
\* word, an exit request, a debug sentinel, and a main-loop skipped call
SessionCalls ==
    {CallOf("rr_record_input_1", "RR_CALLSITE_IO_READ", <<66>>, <<>>),
     CallOf("rr_record_exit_request", "RR_CALLSITE_CPU_HANDLE_INTERRUPT",
            <<1>>, <<>>),
     CallOf("rr_record_cpu_mem_rw_call", "RR_CALLSITE_MAIN_LOOP_WAIT",
            <<4096>>, <<7, 9>>)}
        \cup InterruptCalls \cup DebugCalls

ReplayFn(fn, call_site) == CallOf(fn, call_site, <<>>, <<>>)

ReplayInputCalls ==
    {ReplayFn(fn, "RR_CALLSITE_IO_READ") :
         fn \in {"rr_replay_input_1", "rr_replay_input_2",
                 "rr_replay_input_4", "rr_replay_input_8"}}
        \cup {ReplayFn("rr_replay_input_1",
                       "RR_CALLSITE_CPU_HANDLE_INTERRUPT")}

\* what the CPU loop and the main loop call during replay
ReplayCalls ==
    {ReplayFn("rr_replay_input_1", cs) : cs \in InputCallSites}
        \cup {ReplayFn("rr_replay_input_4", "RR_CALLSITE_IO_READ")}
        \cup {ReplayFn(fn, "RR_CALLSITE_CPU_HANDLE_INTERRUPT") :
                  fn \in {"rr_replay_interrupt_request",
                          "rr_replay_exit_request", "rr_replay_debug"}}
        \cup {ReplayFn("rr_replay_interrupt_request",
                       "RR_CALLSITE_MAIN_LOOP_WAIT")}
        \cup {ReplayFn("rr_replay_skipped_calls_internal", cs) :
                  cs \in DeviceCallSites}

NextReplay ==
    \/ Tick
    \/ BeginRecord
    \/ RecordStep(SessionCalls)
    \/ EndRecord
    \/ BeginReplay
    \/ ReplayStep(ReplayCalls)
    \/ EndReplay

SpecReplay == Init /\ [][NextReplay]_vars

\* sessions of inputs of every width and debug sentinels, replayed
InputSessionCalls ==
    {CallOf("rr_record_input_1", "RR_CALLSITE_IO_READ", <<66>>, <<>>),
     CallOf("rr_record_input_2", "RR_CALLSITE_IO_READ", <<4660>>, <<>>),
     CallOf("rr_record_input_4", "RR_CALLSITE_IO_READ", <<305419896>>, <<>>),
     CallOf("rr_record_input_8", "RR_CALLSITE_IO_READ", <<16909060>>, <<>>)}
        \cup DebugCalls

NextReplayInputs ==
    \/ Tick
    \/ BeginRecord
    \/ RecordStep(InputSessionCalls)
    \/ EndRecord
    \/ BeginReplay
    \/ ReplayStep(ReplayInputCalls)
    \/ EndReplay

SpecReplayInputs == Init /\ [][NextReplayInputs]_vars

(***************************************************************************)
(* Properties of the replay side.                                          *)
(***************************************************************************)
InReplay == rr_mode = "RR_REPLAY" /\ status = "running"

\* C7: in every replay state the prefetch queue holds at most
\* RR_MAX_QUEUE_LEN + 1 entries.
C7_QueueBound == rr_mode = "RR_REPLAY" => Len(Queue) <= RR_MAX_QUEUE_LEN + 1

\* the queue is as long as it gets
C7_Witness == InReplay /\ Len(Queue) = RR_MAX_QUEUE_LEN + 1

BoundaryEntry(kind, call_site) ==
    \/ kind = "RR_INTERRUPT_REQUEST"
    \/ kind = "RR_SKIPPED_CALL" /\ call_site = "RR_CALLSITE_MAIN_LOOP_WAIT"

\* C8: a call of rr_fill_queue ends, having read at least a header's bytes
\* of the file per entry, and returns with the log exhausted, or a boundary
\* entry (an interrupt request, or a skipped call of the main loop) at the
\* tail, or more than RR_MAX_QUEUE_LEN entries appended; so a boundary entry
\* in the queue is always its tail.
C8_FillStopsAtBoundary ==
    /\ fill_ret.called
           => /\ \/ fill_ret.log_empty
                 \/ /\ fill_ret.queue_len > 0
                    /\ BoundaryEntry(fill_ret.tail_kind, fill_ret.tail_callsite)
                 \/ fill_ret.num_entries > RR_MAX_QUEUE_LEN
              /\ fill_ret.queue_len = fill_ret.num_entries
              /\ fill_ret.num_entries * HeaderSize <= fill_ret.bytes
              /\ fill_ret.bytes <= Len(file)
    /\ \A i \in 1..(Len(Queue) - 1) :
           ~BoundaryEntry(Queue[i].kind, Queue[i].callsite_loc)

\* a fill has stopped at a boundary entry with more of the log to read
C8_Witness ==
    /\ InReplay
    /\ fill_ret.called
    /\ ~fill_ret.log_empty
    /\ fill_ret.num_entries = RR_MAX_QUEUE_LEN
    /\ BoundaryEntry(fill_ret.tail_kind, fill_ret.tail_callsite)
    /\ Len(Queue) > 0
    /\ BoundaryEntry(Queue[Len(Queue)].kind, Queue[Len(Queue)].callsite_loc)

\* the entries a call hands to its dispatcher satisfy P(entry)
EveryConsumed(given, P(_)) == \A i \in 1..Len(given) : P(given[i])

NotAhead(entry) == ~PPLess(clock, entry.prog_point)

\* C9 as stated: no entry is consumed whose program point is greater, in
\* the lexicographic order, than the guest's, entries recorded at
\* instruction count 0 included.
C9_NeverAheadLexicographic ==
    InReplay => \A c \in ReplayCalls :
                    EveryConsumed(Call(St, c).s.given, NotAhead)

NotAheadByCount(entry) ==
    /\ entry.prog_point.guest_instr_count <= clock.guest_instr_count
    /\ (/\ entry.prog_point.guest_instr_count > 0
        /\ entry.kind \in InputKinds \cup {"RR_EXIT_REQUEST"})
           => entry.prog_point = clock

\* C9, amended: no entry is consumed whose guest instruction count is
\* greater than the guest's; an input or exit request recorded after
\* instruction count 0 is consumed only at exactly its program point.
C9_NeverAheadByInstrCount ==
    InReplay => \A c \in ReplayCalls :
                    EveryConsumed(Call(St, c).s.given, NotAheadByCount)

\* an entry has been consumed and recycled whose pc lies ahead of the
\* guest's
C9_Witness ==
    /\ InReplay
    /\ recycle_list # NULL
    /\ PPLess(clock, shells[recycle_list].entry.prog_point)
    /\ shells[recycle_list].entry.prog_point.guest_instr_count
           <= clock.guest_instr_count

\* the input kind a replay function asks for
InputKindOf(fn) ==
    CASE fn = "rr_replay_input_1" -> "RR_INPUT_1"
      [] fn = "rr_replay_input_2" -> "RR_INPUT_2"
      [] fn = "rr_replay_input_4" -> "RR_INPUT_4"
      [] fn = "rr_replay_input_8" -> "RR_INPUT_8"

RECURSIVE DropDebug(_)
DropDebug(q) ==
    IF q # <<>> /\ q[1].kind = "RR_DEBUG" THEN DropDebug(Tail(q)) ELSE q

\* the queue a call finds, refilled from the log when it is empty
QueueOrRefill ==
    IF rr_queue_head = NULL THEN QueueOf(rr_fill_queue(St)) ELSE Queue

Delivered(r, entry, rest) ==
    /\ Running(r.s)
    /\ r.out = entry.args[1]
    /\ r.s.recycle # NULL
    /\ r.s.shells[r.s.recycle].entry = entry
    /\ QueueOf(r.s) = rest

\* no value is written and the process is gone: abort(), or the crash
FatalWithout(r, crash) ==
    /\ r.out = NoValue
    /\ r.s.status = IF crash THEN "crashed" ELSE "aborted"

\* the head as C10 reads it: the first entry of the queue
InputOutcomeAsStated(c, q, r) ==
    IF /\ q # <<>>
       /\ q[1].kind = InputKindOf(c.fn)
       /\ (q[1].prog_point = clock \/ q[1].prog_point.guest_instr_count = 0)
       /\ q[1].callsite_loc = c.call_site
    THEN Delivered(r, q[1], Tail(q))
    ELSE FatalWithout(r, FALSE)

\* C10 as stated: rr_replay_input_N delivers the value of the queue head
\* and recycles it when the head is an RR_INPUT_N entry, due, of the same
\* call-site; in every other case the call ends in abort() and delivers
\* nothing.
C10_InputOrAbort ==
    InReplay => \A c \in ReplayInputCalls :
                    InputOutcomeAsStated(c, QueueOrRefill, Call(St, c))

\* the head once the leading RR_DEBUG entries are dropped; found tells
\* whether there was a queue to drop them from
InputOutcome(c, found, q, r) ==
    IF /\ q # <<>>
       /\ q[1].kind = InputKindOf(c.fn)
       /\ (q[1].prog_point = clock \/ q[1].prog_point.guest_instr_count = 0)
       /\ q[1].callsite_loc = c.call_site
    THEN Delivered(r, q[1], Tail(q))
    ELSE FatalWithout(r, found /\ q = <<>>)

\* C10, amended: once an empty queue is refilled and the leading RR_DEBUG
\* entries are dropped, rr_replay_input_N delivers the head's value and
\* recycles it when the head is an RR_INPUT_N entry of the same call-site
\* recorded at the guest's program point or at instruction count 0; in
\* every other case nothing is delivered and the process ends, in abort(),
\* or in the dereference of the null head when dropping the RR_DEBUG
\* entries emptied the queue.
C10_InputAfterDebugOrFatal ==
    InReplay => \A c \in ReplayInputCalls :
                    InputOutcome(c, QueueOrRefill # <<>>,
                                 DropDebug(QueueOrRefill), Call(St, c))

\* an input has been delivered from behind a debug sentinel, which is
\* neither in the queue nor recycled
C10_Witness ==
    /\ InReplay
    /\ recycle_list # NULL
    /\ shells[recycle_list].entry.kind \in InputKinds
    /\ shells[recycle_list].next = NULL
    /\ \E i \in 1..Len(shells) :
           /\ shells[i].entry.kind = "RR_DEBUG"
           /\ i # recycle_list
           /\ \A j \in 1..Len(Queue) : Queue[j] # shells[i].entry

(***************************************************************************)
(* A record session whose interrupt checks are noted down, and a replay    *)
(* that repeats those checks at the program points where they were made.    *)
(***************************************************************************)
\* largest number of interrupt checks noted down in a record session
MaxCalls == 3

\* what a call of rr_record_interrupt_request saw, and where
Observation(c) ==
    [prog_point |-> clock, call_site |-> c.call_site, value |-> c.args[1]]

\* the guest executes while it is recorded
GuestRuns == rr_mode = "RR_RECORD" /\ Tick

\* the CPU loop checks the interrupt word during a record session
ObserveInterrupt ==
    /\ status = "running"
    /\ rr_mode = "RR_RECORD"
    /\ Len(written) < MaxItems
    /\ Len(observed) < MaxCalls
    /\ \E c \in InterruptCalls :
           Commit([Call(St, c).s EXCEPT
                      !.observed = Append(observed, Observation(c))])

\* the process that recorded has exited and a new one has started: every
\* global is as the loader initialises it, the log file is on disk
Restart ==
    /\ status = "running"
    /\ rr_mode = "RR_OFF"
    /\ file # <<>>
    /\ Commit([St EXCEPT !.clock = ZeroPP, !.intr = 0, !.fill = NoFill,
                          !.log = NoLog, !.shells = <<>>, !.head = NULL,
                          !.tail = NULL, !.recycle = NULL,
                          !.num = ZeroCounters, !.sizes = ZeroCounters,
                          !.maxq = 0, !.delivered = <<>>,
                          !.record_requested = 0, !.end_record_requested = 0,
                          !.end_replay_requested = 0, !.requested_name = "",
                          !.snapshot_name = "", !.map_list = <<>>,
                          !.mem = <<>>])

\* the check o of the record session, repeated by the replayed guest
MirrorCall(s, o) ==
    rr_replay_interrupt_request([s EXCEPT !.clock = o.prog_point],
                                o.call_site)

\* the replayed guest reaches the next program point where the recorded
\* guest checked the interrupt word, and checks it
MirrorInterrupt ==
    /\ status = "running"
    /\ rr_mode = "RR_REPLAY"
    /\ mirror < Len(observed)
    /\ Commit([MirrorCall(St, observed[mirror + 1]).s EXCEPT
                  !.mirror = mirror + 1])

NextMirror ==
    \/ GuestRuns
    \/ BeginRecord
    \/ ObserveInterrupt
    \/ EndRecord
    \/ Restart
    \/ BeginReplay
    \/ MirrorInterrupt
    \/ EndReplay

SpecMirror == Init /\ [][NextMirror]_vars

ReplayInterruptCalls ==
    {ReplayFn("rr_replay_interrupt_request", cs) :
         cs \in {"RR_CALLSITE_CPU_HANDLE_INTERRUPT",
                 "RR_CALLSITE_MAIN_LOOP_WAIT"}}

\* the head is an interrupt request the call c takes
InterruptAtHead(c, q, now) ==
    /\ q # <<>>
    /\ q[1].kind = "RR_INTERRUPT_REQUEST"
    /\ q[1].callsite_loc = c.call_site
    /\ \/ q[1].prog_point.guest_instr_count = 0
       \/ q[1].prog_point.guest_instr_count = now.guest_instr_count

\* out and the cache after the call: the head's value when it is taken,
\* the cache as it was otherwise
WritesCachedWord(c, q, r) ==
    /\ Running(r.s)
    /\ r.out = r.s.intr
    /\ r.s.intr = IF InterruptAtHead(c, q, clock) THEN q[1].args[1]
                  ELSE panda_current_interrupt_request

C11_CachedWord ==
    InReplay => \A c \in ReplayInterruptCalls :
                    WritesCachedWord(c, QueueOrRefill, Call(St, c))

C11_Mirror ==
    (InReplay /\ mirror < Len(observed))
        => MirrorCall(St, observed[mirror + 1]).out
               = observed[mirror + 1].value

\* C11: rr_replay_interrupt_request writes the cached interrupt word into
\* out, after setting the cache to the value of a due RR_INTERRUPT_REQUEST
\* entry of the caller's call-site at the queue head; and a replay that
\* calls it at the program points where the record session called
\* rr_record_interrupt_request gets, call by call, the value the record
\* session saw.
C11_InterruptReplaysObserved == C11_CachedWord /\ C11_Mirror

\* C12: panda_current_interrupt_request is reset when a record session or a
\* replay session starts, so the first check of a session is compared
\* against the reset value, 0, and not against what an earlier session of
\* the process left.
C12_CacheResetOnSessionStart ==
    [][(rr_mode' # rr_mode /\ rr_mode' \in {"RR_RECORD", "RR_REPLAY"})
           => panda_current_interrupt_request' = 0]_vars

(***************************************************************************)
(* Properties of the typed replay dispatchers, under SpecReplay.           *)
(***************************************************************************)
ReplayExitCalls ==
    {ReplayFn("rr_replay_exit_request", cs) :
         cs \in {"RR_CALLSITE_CPU_HANDLE_INTERRUPT",
                 "RR_CALLSITE_MAIN_LOOP_WAIT"}}

\* nothing is taken: out is 0 and the queue is as get_next_entry left it
NoneTaken(r, q) ==
    /\ Running(r.s)
    /\ r.out = 0
    /\ r.s.given = <<>>
    /\ QueueOf(r.s) = q

\* q is the queue once the leading RR_DEBUG entries are dropped; found
\* tells whether there was a queue to drop them from
ExitOutcome(c, found, q, r) ==
    IF /\ q # <<>>
       /\ q[1].kind = "RR_EXIT_REQUEST"
       /\ (q[1].prog_point = clock \/ q[1].prog_point.guest_instr_count = 0)
    THEN IF q[1].callsite_loc = c.call_site
         THEN /\ Delivered(r, q[1], Tail(q))
              /\ r.out # 0
              /\ r.s.given = <<q[1]>>
         ELSE FatalWithout(r, FALSE)
    ELSE IF found /\ q = <<>> THEN FatalWithout(r, TRUE)
    ELSE NoneTaken(r, q)

\* C13: rr_replay_exit_request writes 0 into out when get_next_entry has
\* no RR_EXIT_REQUEST entry to return; when it returns one, the call
\* aborts if the entry's call-site differs from the caller's, and otherwise
\* writes the recorded value and recycles the entry; so the value written
\* is not 0 exactly when the call consumed an RR_EXIT_REQUEST entry.
C13_ExitRequestReplay ==
    InReplay => \A c \in ReplayExitCalls :
                    ExitOutcome(c, QueueOrRefill # <<>>,
                                DropDebug(QueueOrRefill), Call(St, c))

\* an exit request has been delivered and recycled
C13_Witness ==
    /\ InReplay
    /\ recycle_list # NULL
    /\ shells[recycle_list].entry.kind = "RR_EXIT_REQUEST"
    /\ shells[recycle_list].entry.args # <<0>>

ReplaySkippedCalls ==
    {ReplayFn("rr_replay_skipped_calls_internal", cs) : cs \in DeviceCallSites}

\* a skipped call the loop takes at the program point now
DueSkippedCall(entry, now) ==
    /\ entry.kind = "RR_SKIPPED_CALL"
    /\ \/ entry.prog_point.guest_instr_count = now.guest_instr_count
       \/ entry.prog_point.guest_instr_count = 0

DueSkippedCallNow(entry) == DueSkippedCall(entry, clock)

\* nothing is left to drain: queue and log are exhausted, or the head is
\* not a skipped call that is due
Drained(s, q) ==
    IF q = <<>> THEN rr_log_is_empty(s) ELSE ~DueSkippedCall(q[1], s.clock)

\* C14: when rr_replay_skipped_calls_internal returns without aborting,
\* for either call-site, it has consumed only skipped calls that were due,
\* and either the queue and the log are both exhausted or the queue head is
\* not a skipped call due at the guest's program point; the draining goes
\* on across the refills of a queue that empties during the loop.
C14_SkippedCallsDrained ==
    InReplay => \A c \in ReplaySkippedCalls :
                    Running(Call(St, c).s)
                        => /\ Drained(Call(St, c).s, QueueOf(Call(St, c).s))
                           /\ EveryConsumed(Call(St, c).s.given,
                                            DueSkippedCallNow)

\* both skipped calls of a log, recorded at one instruction count behind
\* boundaries of their own, are drained while the guest is at that count
C14_Witness ==
    /\ InReplay
    /\ Len(Log) = 3
    /\ Log[1].kind = "RR_SKIPPED_CALL"
    /\ Log[2].kind = "RR_SKIPPED_CALL"
    /\ Log[1].prog_point.guest_instr_count = clock.guest_instr_count
    /\ Log[2].prog_point.guest_instr_count = clock.guest_instr_count
    /\ clock.guest_instr_count > 0
    /\ Len(Queue) = 1
    /\ Queue[1].kind = "RR_LAST"
    /\ rr_number_of_log_entries[EnumCode(LogEntryKinds, "RR_SKIPPED_CALL")] = 2

(***************************************************************************)
(* Properties of the log container and of the session controller.          *)
(***************************************************************************)
\* the header of the log file: the program point in its first bytes
FileHeader == PPFromBytes(SubSeq(file, 1, ProgPointSize))

LastOf(entries) == entries[Len(entries)]

\* C15: while a session records, the file header is (0,0,0) as written when
\* the log was opened and, once an entry is written, the log's
\* last_prog_point is that entry's program point; after rr_do_end_record
\* the header is the program point of the RR_LAST entry, and a replay
\* session that opens the file has it as its last_prog_point.
C15_LastProgPoint ==
    status = "running"
        => /\ rr_mode = "RR_RECORD"
                  => /\ FileHeader = ZeroPP
                     /\ written # <<>>
                            => rr_nondet_log.last_prog_point
                                   = LastOf(written).prog_point
           /\ (rr_mode = "RR_OFF" /\ file # <<>>)
                  => /\ LastOf(Log).kind = "RR_LAST"
                     /\ FileHeader = LastOf(Log).prog_point
           /\ rr_mode = "RR_REPLAY"
                  => /\ rr_nondet_log.last_prog_point = FileHeader
                     /\ FileHeader = LastOf(Log).prog_point

\* a replay session has read the header of a log that ended after
\* instruction count 0
C15_Witness ==
    /\ InReplay
    /\ rr_nondet_log.last_prog_point = LastOf(Log).prog_point
    /\ LastOf(Log).kind = "RR_LAST"
    /\ LastOf(Log).prog_point.guest_instr_count > 0
    /\ Len(Log) > 1
    /\ Log[1].prog_point # LastOf(Log).prog_point

\* the call c ends in abort(), the log file untouched and nothing delivered
FatalAbort(r) ==
    /\ r.s.status = "aborted"
    /\ r.s.file = file
    /\ r.out = NoValue

\* C16: a capture function called while the mode is not RR_RECORD ends in
\* abort() and appends nothing to the log file, whatever its arguments:
\* rr_record_interrupt_request with the cached value and
\* rr_record_exit_request with 0 included.
C16_CaptureOutsideRecordAborts ==
    (status = "running" /\ rr_mode # "RR_RECORD")
        => \A c \in RecordCalls : FatalAbort(Call(St, c))

\* every replay function, at the call-sites the replayed guest uses
AllReplayCalls ==
    ReplayCalls \cup ReplayInputCalls \cup ReplayInterruptCalls
        \cup ReplayExitCalls \cup ReplaySkippedCalls

\* C17: a replay function (rr_replay_input_N, rr_replay_interrupt_request,
\* rr_replay_exit_request, rr_replay_skipped_calls_internal,
\* rr_replay_debug) called while the mode is not RR_REPLAY ends in abort()
\* and delivers no value.
C17_ReplayOutsideReplayAborts ==
    (status = "running" /\ rr_mode # "RR_REPLAY")
        => \A c \in AllReplayCalls : FatalAbort(Call(St, c))

(***************************************************************************)
(* The session controller called in any mode: the monitor and the main     *)
(* loop call rr_do_begin_record, rr_do_end_record, rr_do_begin_replay and   *)
(* rr_do_end_replay whenever a request flag is set.                         *)
(***************************************************************************)
DoBeginRecord ==
    /\ status = "running"
    /\ \E snapshot_ret \in SnapshotRets :
           Commit(rr_do_begin_record(St, snapshot_ret).s)

DoEndRecord ==
    /\ status = "running"
    /\ Commit(rr_do_end_record(St))

DoBeginReplay ==
    /\ status = "running"
    /\ \E snapshot \in {"ok", "missing", "load_failed"} :
           Commit(rr_do_begin_replay(St, snapshot).s)

DoEndReplay ==
    /\ status = "running"
    /\ \E is_error \in BOOLEAN : Commit(rr_do_end_replay(St, is_error))

NextControl ==
    \/ Tick
    \/ DoBeginRecord
    \/ RecordStep(InterruptCalls \cup DebugCalls)
    \/ DoEndRecord
    \/ DoBeginReplay
    \/ DoEndReplay

SpecControl == Init /\ [][NextControl]_vars

\* the changes of mode the session state machine has
ModeSteps ==
    {<<"RR_OFF", "RR_RECORD">>, <<"RR_RECORD", "RR_OFF">>,
     <<"RR_OFF", "RR_REPLAY">>, <<"RR_REPLAY", "RR_OFF">>}

\* C18: whatever rr_do_* calls are made, the mode changes only along
\* OFF->RECORD, RECORD->OFF, OFF->REPLAY and REPLAY->OFF, never from
\* RECORD to REPLAY or back directly, and no log of the other type is
\* opened while a log is active.
C18_ModeTransitions ==
    [][/\ rr_mode' # rr_mode => <<rr_mode, rr_mode'>> \in ModeSteps
       /\ (rr_nondet_log # NoLog /\ rr_nondet_log' # NoLog)
              => rr_nondet_log'.type = rr_nondet_log.type]_vars

\* the session is not entered: the mode is RR_OFF and no log is open
NotEntered(r) == r.s.mode = "RR_OFF" /\ r.s.log = NoLog

\* C19: when saving the snapshot fails, rr_do_begin_record does not enter
\* the record session: the mode stays RR_OFF and no record log is left
\* open.
C19_FailedSnapshotNotEntered ==
    (status = "running" /\ rr_mode = "RR_OFF")
        => \A snapshot_ret \in SnapshotRets :
               snapshot_ret < 0
                   => NotEntered(rr_do_begin_record(St, snapshot_ret))


\* replay is not entered by the call that returned r: the mode, the log
\* and the queue are what they were
ReplayNotEntered(r) ==
    /\ r.s.mode = rr_mode
    /\ r.s.log = rr_nondet_log
    /\ r.s.head = rr_queue_head
    /\ r.s.file = file

\* C20: outside replay, rr_do_begin_replay aborts when the snapshot cannot
\* be opened and returns the (negative) error when loading it fails; in
\* both cases the mode is not RR_REPLAY, no replay log is opened and the
\* queue stays empty.
C20_BeginReplaySnapshotFailure ==
    (status = "running" /\ rr_mode # "RR_REPLAY")
        => /\ rr_queue_head = NULL
           /\ rr_nondet_log.type # "REPLAY"
           /\ ReplayNotEntered(rr_do_begin_replay(St, "missing"))
           /\ rr_do_begin_replay(St, "missing").s.status = "aborted"
           /\ ReplayNotEntered(rr_do_begin_replay(St, "load_failed"))
           /\ rr_do_begin_replay(St, "load_failed").s.status = "running"
           /\ rr_do_begin_replay(St, "load_failed").out < 0

C20_Witness ==
    /\ status = "running"
    /\ rr_mode = "RR_OFF"
    /\ file # <<>>
    /\ rr_do_begin_replay(St, "missing").s.status = "aborted"
    /\ rr_do_begin_replay(St, "load_failed").out < 0


\* the state rr_do_end_replay leaves: no queue, no recycle list, the
\* counters of the kinds below RR_LAST and the statistic zero, no log, RR_OFF
EndedClean(s) ==
    /\ s.head = NULL
    /\ s.tail = NULL
    /\ s.recycle = NULL
    /\ \A k \in 0..(EnumCode(LogEntryKinds, "RR_LAST") - 1) :
           s.num[k] = 0 /\ s.sizes[k] = 0
    /\ s.maxq = 0
    /\ s.log = NoLog
    /\ s.mode = "RR_OFF"
    /\ s.status \in {"aborted", "shutdown"}

\* C21: from every replay state, with whatever is still queued,
\* rr_do_end_replay leaves the queue empty (head and tail null), the
\* recycle list empty, every per-kind count and size and the maximal queue
\* length zero, the log closed and released, and the mode RR_OFF.
C21_EndReplayClean ==
    InReplay => \A is_error \in BOOLEAN :
                    EndedClean(rr_do_end_replay(St, is_error))

\* a replay ended early: entries still queued, shells in the recycle list
C21_Witness ==
    /\ InReplay
    /\ Queue # <<>>
    /\ Queue[1].kind # "RR_LAST"
    /\ recycle_list # NULL
    /\ rr_max_num_queue_entries > 0
    /\ rr_do_end_replay(St, FALSE).status = "shutdown"


\* the head of the queue is RR_LAST and the guest's instruction count has
\* reached the one of the log's header
HeadIsLastAndReached ==
    /\ Queue # <<>>
    /\ Queue[1].kind = "RR_LAST"
    /\ clock.guest_instr_count >=
           rr_nondet_log.last_prog_point.guest_instr_count

FinishedAsStated(r) ==
    /\ r.s = St
    /\ r.out = HeadIsLastAndReached

\* C22: during the replay of a log the recorder wrote, rr_replay_finished()
\* is true exactly when the head of the queue is RR_LAST and the guest
\* instruction count is at least the header's last_prog_point instruction
\* count, and false in every other case; it changes nothing.
C22_ReplayFinished == InReplay => FinishedAsStated(rr_replay_finished(St))

\* replay has reached the end of a log whose last entry was written after
\* the guest had executed
C22_Witness ==
    /\ InReplay
    /\ rr_nondet_log.last_prog_point.guest_instr_count > 0
    /\ rr_replay_finished(St).out


\* the kinds the replay functions ask get_next_entry for
RequestedKinds ==
    InputKinds \cup {"RR_INTERRUPT_REQUEST", "RR_EXIT_REQUEST",
                     "RR_SKIPPED_CALL"}

\* replay has consumed every entry before RR_LAST
AtLast == InReplay /\ Len(Queue) = 1 /\ Queue[1].kind = "RR_LAST"

\* get_next_entry returned none and left the queue as it was
NoneReturned(r) ==
    /\ r.p = NULL
    /\ r.s.given = <<>>
    /\ r.s.head = rr_queue_head
    /\ r.s.tail = rr_queue_tail
    /\ QueueOf(r.s) = Queue

\* the replay function handed nothing over and left the queue as it was
LastKept(r) ==
    /\ r.s.given = <<>>
    /\ r.s.head = rr_queue_head
    /\ QueueOf(r.s) = Queue

C23_NoneAtLast ==
    AtLast =>
        /\ \A kind \in RequestedKinds,
              call_site \in InputCallSites \cup DeviceCallSites,
              check_callsite \in BOOLEAN :
               NoneReturned(get_next_entry(St, kind, call_site,
                                           check_callsite))
        /\ \A c \in AllReplayCalls : LastKept(Call(St, c))

\* C23: once replay has consumed every entry before RR_LAST, get_next_entry
\* returns none for every kind a replay function asks for, no replay
\* function detaches RR_LAST, and the queue is the single RR_LAST entry in
\* every later state of the replay session.
C23_LastStays ==
    /\ []C23_NoneAtLast
    /\ [][(AtLast /\ rr_mode' = "RR_REPLAY") => Queue' = Queue]_vars

\* replay is at RR_LAST, at its program point, after another entry
C23_Witness ==
    /\ AtLast
    /\ Len(Log) >= 2
    /\ clock = Queue[1].prog_point
    /\ clock.guest_instr_count > 0


\* the entries replay hands over, in the order record wrote them
RecordOrder == SelectSeq(written, LAMBDA e : e.kind # "RR_DEBUG")

IsPrefix(a, b) == Len(a) <= Len(b) /\ a = SubSeq(b, 1, Len(a))

\* C24: the entries get_next_entry has handed to the replay functions are
\* the first of the non-DEBUG entries record wrote, in the order it wrote
\* them: none twice, none out of order, none but RR_DEBUG entries left out.
C24_ReplayOrderIsRecordOrder == IsPrefix(delivered, RecordOrder)

\* two different entries have been handed over, past a debug entry or not
C24_Witness ==
    /\ rr_mode = "RR_REPLAY"
    /\ Len(delivered) = 2
    /\ delivered[1] # delivered[2]


(***************************************************************************)
(* The monitor and the main loop: commands arrive at any moment, the main  *)
(* loop looks at the request flags at its safe points and calls the        *)
(* session controller, then clears the flag.                               *)
(***************************************************************************)
FileNames == {"rec"}

SnapshotNames == {"snap"}

MonitorCommands == [
    qmp_begin_record |-> {qmp_begin_record(St, f) : f \in FileNames},
    qmp_begin_record_from |->
        {qmp_begin_record_from(St, n, f) : n \in SnapshotNames,
                                           f \in FileNames},
    qmp_end_record |-> {qmp_end_record(St)},
    qmp_end_replay |-> {qmp_end_replay(St)},
    panda_end_replay |-> {panda_end_replay(St)}]

MonitorCommand(name) ==
    /\ status = "running"
    /\ \E s \in MonitorCommands[name] : Commit(s)

MainLoopBeginRecord ==
    /\ status = "running"
    /\ rr_mode = "RR_OFF"
    /\ file = <<>>
    /\ rr_record_requested # 0
    /\ \E snapshot_ret \in SnapshotRets :
           Commit([rr_do_begin_record(St, snapshot_ret).s
                       EXCEPT !.record_requested = 0])

MainLoopEndRecord ==
    /\ status = "running"
    /\ rr_mode = "RR_RECORD"
    /\ rr_end_record_requested = 1
    /\ Commit([rr_do_end_record(St) EXCEPT !.end_record_requested = 0])

MainLoopEndReplay ==
    /\ status = "running"
    /\ rr_mode = "RR_REPLAY"
    /\ rr_end_replay_requested = 1
    /\ Commit([rr_do_end_replay(St, FALSE) EXCEPT !.end_replay_requested = 0])

NextMonitor ==
    \/ Tick
    \/ MonitorCommand("qmp_begin_record")
    \/ MonitorCommand("qmp_begin_record_from")
    \/ MonitorCommand("qmp_end_record")
    \/ MonitorCommand("qmp_end_replay")
    \/ MonitorCommand("panda_end_replay")
    \/ MainLoopBeginRecord
    \/ RecordStep(InterruptCalls \cup DebugCalls)
    \/ MainLoopEndRecord
    \/ BeginReplay
    \/ ReplayStep(ReplayInterruptCalls)
    \/ MainLoopEndReplay

SpecMonitor == Init /\ [][NextMonitor]_vars

\* what the commands may write
RequestsOf(s) ==
    <<s.record_requested, s.end_record_requested, s.end_replay_requested,
      s.requested_name, s.snapshot_name>>

\* the command that led to s wrote nothing but the requests
OnlyRequested(s) == s = [St EXCEPT !.record_requested = s.record_requested,
                                   !.end_record_requested =
                                       s.end_record_requested,
                                   !.end_replay_requested =
                                       s.end_replay_requested,
                                   !.requested_name = s.requested_name,
                                   !.snapshot_name = s.snapshot_name]

C25_CommandsOnlyRequest ==
    status = "running" =>
        /\ \A name \in DOMAIN MonitorCommands :
               \A s \in MonitorCommands[name] : OnlyRequested(s)
        /\ \A s \in MonitorCommands.qmp_begin_record :
               s.record_requested = RR_RECORD_REQUEST
        /\ \A s \in MonitorCommands.qmp_begin_record_from :
               s.record_requested = RR_RECORD_FROM_REQUEST
        /\ qmp_end_record(St).end_record_requested = 1
        /\ qmp_end_replay(St).end_replay_requested = 1
        /\ panda_end_replay(St).end_replay_requested = 1

\* a request is being made in this step
Requesting ==
    \/ rr_record_requested' \notin {0, rr_record_requested}
    \/ rr_end_record_requested' > rr_end_record_requested
    \/ rr_end_replay_requested' > rr_end_replay_requested
    \/ rr_requested_name' # rr_requested_name
    \/ rr_snapshot_name' \notin {"", rr_snapshot_name}

\* C25: the monitor commands qmp_begin_record, qmp_begin_record_from,
\* qmp_end_record, qmp_end_replay and panda_end_replay only set their
\* request flag and the requested names: the mode, the log, the queue and
\* the recycle list are unchanged by them, so no step that makes a request
\* changes the mode.
C25_MonitorOnlyRequests ==
    /\ []C25_CommandsOnlyRequest
    /\ [][Requesting => UNCHANGED <<rr_mode, rr_nondet_log, file, shells,
                                    rr_queue_head, rr_queue_tail,
                                    recycle_list>>]_vars

\* the end of a replay is requested while entries are queued
C25_Witness ==
    /\ status = "running"
    /\ rr_mode = "RR_REPLAY"
    /\ rr_end_replay_requested = 1
    /\ Queue # <<>>


(***************************************************************************)
(* Tracked regions: the emulator registers the buffers devices write to by *)
(* DMA, devices write into them, and the main loop flushes them.           *)
(***************************************************************************)
MaxRegions == 2

\* the length of a tracked buffer, scaled down
RegionLen == 2

\* what a buffer holds when it is mapped
RegionBytes == {[j \in 1..RegionLen |-> 0]}

\* the guest-physical address of the i-th buffer mapped
RegionAddr(i) == 4096 * i

\* a buffer is mapped: the region is listed with the checksum of its bytes
RegisterRegion ==
    /\ status = "running"
    /\ rr_mode = "RR_RECORD"
    /\ Len(rr_map_list) < MaxRegions
    /\ \E bytes \in RegionBytes :
           Commit([St EXCEPT !.map_list =
                       Append(rr_map_list,
                              [addr |-> RegionAddr(Len(rr_map_list) + 1),
                               ptr |-> bytes, len |-> RegionLen,
                               crc |-> crc32(0, bytes)])])

\* a device writes a byte of a tracked buffer
DeviceWrite ==
    /\ status = "running"
    /\ rr_mode = "RR_RECORD"
    /\ \E i \in 1..Len(rr_map_list), j \in 1..RegionLen, b \in {0, 1} :
           /\ rr_map_list[i].ptr[j] # b
           /\ Commit([St EXCEPT !.map_list[i].ptr[j] = b])

TrackedFlush ==
    /\ status = "running"
    /\ rr_mode = "RR_RECORD"
    /\ Len(written) < MaxItems
    /\ Commit(rr_tracked_mem_regions_record(St,
                                             "RR_CALLSITE_MAIN_LOOP_WAIT"))

NextTracked ==
    \/ Tick
    \/ BeginRecord
    \/ RegisterRegion
    \/ DeviceWrite
    \/ TrackedFlush
    \/ EndRecord

SpecTracked == Init /\ [][NextTracked]_vars

\* the regions whose bytes no longer have the cached checksum
ChangedRegions ==
    SelectSeq(rr_map_list, LAMBDA region : crc32(0, region.ptr) # region.crc)

\* the entry a flush at call_site writes for a changed region
RegionEntry(region, call_site) ==
    Entry(clock, "RR_SKIPPED_CALL", call_site, "RR_CALL_CPU_MEM_RW",
          <<region.addr, region.len>>, region.ptr)

\* s is the state after a flush at call_site: one entry for each changed
\* region, with the region's bytes, and every checksum is the current one
Flushed(s, call_site) ==
    /\ Running(s)
    /\ s.written =
           written \o [i \in 1..Len(ChangedRegions) |->
                          RegionEntry(ChangedRegions[i], call_site)]
    /\ Len(s.map_list) = Len(rr_map_list)
    /\ \A i \in 1..Len(rr_map_list) :
           /\ s.map_list[i].ptr = rr_map_list[i].ptr
           /\ s.map_list[i].crc = crc32(0, rr_map_list[i].ptr)
    /\ rr_tracked_mem_regions_record(s, call_site).written = s.written
    /\ rr_tracked_mem_regions_record(s, call_site).file = s.file

\* C26: rr_tracked_mem_regions_record writes, for each tracked region, one
\* CPU_MEM_RW entry with the region's address and current bytes exactly
\* when the checksum of the bytes differs from the cached one, and leaves
\* the cached checksum equal to the current one; a second flush with no
\* write in between writes nothing.
C26_TrackedFlush ==
    (status = "running" /\ rr_mode = "RR_RECORD")
        => \A call_site \in DeviceCallSites :
               Flushed(rr_tracked_mem_regions_record(St, call_site), call_site)

\* a region flushed once has been written to again, two bytes of it, and
\* the other region has not
C26_Witness ==
    /\ status = "running"
    /\ rr_mode = "RR_RECORD"
    /\ Len(rr_map_list) = 2
    /\ Len(ChangedRegions) = 1
    /\ \E i \in 1..Len(written) :
           /\ written[i].call_kind = "RR_CALL_CPU_MEM_RW"
           /\ written[i].args[1] = ChangedRegions[1].addr
           /\ \A j \in 1..RegionLen :
                  written[i].buf[j] # ChangedRegions[1].ptr[j]


\* get_next_entry returned none and the queue is q
NoneLeaves(r, q) ==
    (Running(r.s) /\ r.p = NULL) => (QueueOf(r.s) = q /\ r.s.given = <<>>)

\* C27 as stated: whenever get_next_entry returns none on a queue that has
\* a head, the queue after the call is the queue before it.
C27_NoneIsNoOp ==
    (InReplay /\ rr_queue_head # NULL)
        => \A kind \in RequestedKinds,
              call_site \in InputCallSites \cup DeviceCallSites,
              check_callsite \in BOOLEAN :
               NoneLeaves(get_next_entry(St, kind, call_site, check_callsite),
                          Queue)

\* the queue get_next_entry examines when asked for kind: the queue, or
\* the refilled one if it was empty, without its leading RR_DEBUG entries
\* unless kind is RR_INTERRUPT_REQUEST or RR_SKIPPED_CALL
Examined(kind, q) ==
    IF kind \in {"RR_INTERRUPT_REQUEST", "RR_SKIPPED_CALL"} THEN q
    ELSE DropDebug(q)

\* C27: when get_next_entry returns none, no entry but leading RR_DEBUG
\* entries has left the queue: the queue is the one before the call
\* (refilled if it was empty), without its leading RR_DEBUG entries when an
\* input or an exit request was asked for, and nothing was handed over.
C27_NoneDropsOnlyDebug ==
    InReplay
        => \A kind \in RequestedKinds,
              call_site \in InputCallSites \cup DeviceCallSites,
              check_callsite \in BOOLEAN :
               NoneLeaves(get_next_entry(St, kind, call_site, check_callsite),
                          Examined(kind, QueueOrRefill))

\* none is returned for an input that is not due behind a debug entry, and
\* for an interrupt request at a head that is not one
C27_Witness ==
    /\ InReplay
    /\ Len(Queue) = 2
    /\ Queue[1].kind = "RR_DEBUG"
    /\ Queue[2].kind = "RR_INPUT_1"
    /\ get_next_entry(St, "RR_INPUT_1", "RR_CALLSITE_IO_READ", FALSE).p = NULL
    /\ get_next_entry(St, "RR_INTERRUPT_REQUEST",
                      "RR_CALLSITE_CPU_HANDLE_INTERRUPT", TRUE).p = NULL


(***************************************************************************)
(* Damaged logs: between the record and the replay the file is cut short   *)
(* or an enumerator in it is overwritten.                                  *)
(***************************************************************************)
DamagedSessionCalls ==
    {CallOf("rr_record_input_1", "RR_CALLSITE_IO_READ", <<66>>, <<>>),
     CallOf("rr_record_cpu_mem_rw_call", "RR_CALLSITE_MAIN_LOOP_WAIT",
            <<4096>>, <<7, 9>>)}

DamagedReplayCalls ==
    {ReplayFn("rr_replay_input_1", "RR_CALLSITE_IO_READ"),
     ReplayFn("rr_replay_skipped_calls_internal",
              "RR_CALLSITE_MAIN_LOOP_WAIT")}

\* the offset in the file of the k-th item written
RECURSIVE EntryStart(_, _)
EntryStart(items, k) ==
    IF k = 1 THEN ProgPointSize
    ELSE EntryStart(items, k - 1) + Len(ItemToBytes(items[k - 1]))

\* the file with the 4 bytes after offset pos overwritten by code
Overwritten(bytes, pos, code) ==
    SubSeq(bytes, 1, pos) \o ToBytes(code, 4)
        \o SubSeq(bytes, pos + 5, Len(bytes))

Intact == file # <<>> /\ Len(file) = EntryStart(written, Len(written) + 1)

Truncate ==
    /\ status = "running"
    /\ rr_mode = "RR_OFF"
    /\ Intact
    /\ \E cut \in ProgPointSize..(Len(file) - 1) :
           Commit([St EXCEPT !.file = SubSeq(file, 1, cut)])

\* the kind of an entry becomes a code behind RR_LAST, or the sub-kind of
\* a skipped call a code behind RR_CALL_HANDLE_PACKET
CorruptKind ==
    /\ status = "running"
    /\ rr_mode = "RR_OFF"
    /\ Intact
    /\ \E k \in 1..Len(written) :
           \/ Commit([St EXCEPT !.file =
                  Overwritten(file, EntryStart(written, k) + ProgPointSize,
                              Len(LogEntryKinds))])
           \/ /\ written[k].kind = "RR_SKIPPED_CALL"
              /\ Commit([St EXCEPT !.file =
                     Overwritten(file, EntryStart(written, k) + HeaderSize,
                                 Len(SkippedCallKinds))])

NextDamaged ==
    \/ BeginRecord
    \/ RecordStep(DamagedSessionCalls)
    \/ EndRecord
    \/ Truncate
    \/ CorruptKind
    \/ BeginReplay
    \/ ReplayStep(DamagedReplayCalls)
    \/ EndReplay

SpecDamaged == Init /\ [][NextDamaged]_vars

\* the 4-byte enumerator the file holds after offset pos is none of enum
BadEnumAt(enum, pos) ==
    /\ Len(file) >= pos + 4
    /\ ~EnumValid(enum, FromBytes(SubSeq(file, pos + 1, pos + 4)))

\* the k-th item written is damaged in the file: the file ends inside it,
\* or its kind or its sub-kind is unknown
DamagedAt(k) ==
    \/ /\ EntryStart(written, k) < Len(file)
       /\ Len(file) < EntryStart(written, k + 1)
    \/ BadEnumAt(LogEntryKinds, EntryStart(written, k) + ProgPointSize)
    \/ /\ written[k].kind = "RR_SKIPPED_CALL"
       /\ BadEnumAt(SkippedCallKinds, EntryStart(written, k) + HeaderSize)

\* rr_read_item aborted and returned no entry
ReadAborts(r) ==
    /\ r.s.status = "aborted"
    /\ r.p = NULL
    /\ r.s.shells = shells
    /\ r.s.head = rr_queue_head
    /\ r.s.tail = rr_queue_tail
    /\ r.s.recycle = recycle_list

Whole(entries, k) ==
    \A i \in 1..Len(entries) : \E j \in 1..(k - 1) : entries[i] = written[j]

\* C28: when the file ends inside an entry, or the entry's kind or
\* skipped-call sub-kind is unknown, rr_read_item aborts on that entry, and
\* the queue and the entries handed to the callers hold only the entries
\* written before it.
C28_DecodeFailureAborts ==
    rr_nondet_log.type = "REPLAY"
        => \A k \in 1..Len(written) :
               DamagedAt(k)
                   => /\ rr_nondet_log.item_number < k
                      /\ Whole(Queue, k)
                      /\ Whole(delivered, k)
                      /\ (status = "running"
                             /\ rr_nondet_log.bytes_read
                                    = EntryStart(written, k))
                            => ReadAborts(rr_read_item(St))

\* replay has read the entries before a damaged one and still runs
C28_Witness ==
    /\ InReplay
    /\ rr_nondet_log.item_number >= 1
    /\ rr_nondet_log.item_number < Len(written)
    /\ DamagedAt(rr_nondet_log.item_number + 1)
    /\ rr_nondet_log.bytes_read
           = EntryStart(written, rr_nondet_log.item_number + 1)
    /\ rr_read_item(St).s.status = "aborted"


\* the program points are equal under the comparison for kind: the
\* instruction counts for an interrupt request or a skipped call, all three
\* fields otherwise
SamePoint(now, pp, kind) ==
    IF kind \in {"RR_INTERRUPT_REQUEST", "RR_SKIPPED_CALL"}
    THEN now.guest_instr_count = pp.guest_instr_count
    ELSE now = pp

\* the condition under which head is detached and returned
Matches(head, kind, call_site, check_callsite) ==
    /\ \/ SamePoint(clock, head.prog_point, kind)
       \/ head.prog_point.guest_instr_count = 0
    /\ head.kind = kind
    /\ ~check_callsite \/ head.callsite_loc = call_site

\* r is get_next_entry's result on the queue q: its head detached and
\* returned when it matches, none and the queue as it is otherwise
HeadOrNone(r, q, kind, call_site, check_callsite) ==
    /\ Running(r.s)
    /\ IF Matches(q[1], kind, call_site, check_callsite)
       THEN /\ r.p # NULL
            /\ r.s.shells[r.p].entry = q[1]
            /\ r.s.given = <<q[1]>>
            /\ QueueOf(r.s) = Tail(q)
       ELSE /\ r.p = NULL
            /\ r.s.given = <<>>
            /\ QueueOf(r.s) = q

\* r returns the head of the queue as it was before the call when that
\* head matches, none otherwise
QueueHeadOrNone(r, kind, call_site, check_callsite) ==
    IF Matches(Queue[1], kind, call_site, check_callsite)
    THEN r.p = rr_queue_head /\ r.s.given = <<Queue[1]>>
    ELSE r.p = NULL /\ r.s.given = <<>>

ExaminedOutcome(r, found, q, kind, call_site, check_callsite) ==
    IF q # <<>> THEN HeadOrNone(r, q, kind, call_site, check_callsite)
    ELSE IF found THEN r.s.status = "crashed" /\ r.s.given = <<>>
    ELSE Running(r.s) /\ r.p = NULL /\ r.s.given = <<>>

SkippedSessionCalls ==
    MemRwCalls \cup DeviceCalls
        \cup {CallOf("rr_record_memory_region_change", "RR_CALLSITE_IO_READ",
                     <<4096, 256, 0, 0>>, <<105, 111>>)}

NextSkipped ==
    \/ Tick
    \/ BeginRecord
    \/ RecordStep(SkippedSessionCalls)
    \/ EndRecord
    \/ BeginReplay
    \/ ReplayStep(ReplaySkippedCalls)
    \/ EndReplay

SpecSkipped == Init /\ [][NextSkipped]_vars

\* C30: every entry in the recycle list has had its variable-length buffer
\* released: the bytes of CPU_MEM_RW, CPU_MEM_UNMAP and HANDLE_PACKET and
\* the name of MEM_REGION_CHANGE.
C30_RecycledBuffersReleased ==
    \A i \in 1..Len(RecyclePtrs) : shells[RecyclePtrs[i]].entry.buf = <<>>


(***************************************************************************)
(* Ownership of the entry shells during replay.                            *)
(***************************************************************************)
QueuePtrs == ListFrom(shells, rr_queue_head, Len(shells))

InList(ps, p) == \E i \in 1..Len(ps) : ps[i] = p

\* C31: between the calls of a replay session every shell rr_read_item has
\* filled is in the prefetch queue or in the recycle list; the RR_DEBUG
\* entries get_next_entry skips are in the recycle list.
C31_SkippedDebugRecycled ==
    InReplay => \A p \in 1..Len(shells) :
                    InList(QueuePtrs, p) \/ InList(RecyclePtrs, p)


\* the head of q is a skipped call the recorder wrote, due now
DueCallAtHead(q) ==
    /\ q # <<>>
    /\ DueSkippedCallNow(q[1])
    /\ \E i \in 1..Len(SkippedCallKinds) : q[1].call_kind = SkippedCallKinds[i]

\* the loop took the head of q and went on without a failed assertion
AppliedHead(q, r) ==
    /\ Running(r.s)
    /\ r.s.given # <<>>
    /\ r.s.given[1] = q[1]

\* C32: a skipped call of any of the six sub-kinds that is due at the head
\* of the queue is consumed by rr_replay_skipped_calls_internal, and the
\* call does not end in the rr_assert(0) of its switch.
C32_EverySubKindApplied ==
    InReplay => \A c \in ReplaySkippedCalls :
                    DueCallAtHead(QueueOrRefill)
                        => AppliedHead(QueueOrRefill, Call(St, c))


(***************************************************************************)
(* Sessions of device writes to guest memory that overlap, replayed.       *)
(***************************************************************************)
MemorySessionCalls ==
    {CallOf("rr_record_cpu_mem_rw_call", "RR_CALLSITE_IO_READ",
            <<4096>>, <<7, 9>>),
     CallOf("rr_record_cpu_mem_rw_call", "RR_CALLSITE_MAIN_LOOP_WAIT",
            <<4097>>, <<5>>),
     CallOf("rr_record_cpu_mem_unmap", "RR_CALLSITE_IO_READ",
            <<4096>>, <<3, 4, 6>>),
     CallOf("rr_record_memory_region_change", "RR_CALLSITE_MAIN_LOOP_WAIT",
            <<4096, 256, 1, 1>>, <<114, 97, 109>>)}

NextMemory ==
    \/ Tick
    \/ BeginRecord
    \/ RecordStep(MemorySessionCalls)
    \/ EndRecord
    \/ BeginReplay
    \/ ReplayStep(ReplaySkippedCalls)
    \/ EndReplay

SpecMemory == Init /\ [][NextMemory]_vars

\* the entry writes the byte at address a
WritesAt(entry, a) ==
    /\ entry.call_kind \in {"RR_CALL_CPU_MEM_RW", "RR_CALL_CPU_MEM_UNMAP"}
    /\ a \in entry.args[1]..(entry.args[1] + entry.args[2] - 1)

\* the index of the last of the entries that writes at a, 0 if none does
LastWriteAt(entries, a) ==
    IF \E i \in 1..Len(entries) : WritesAt(entries[i], a)
    THEN CHOOSE i \in 1..Len(entries) :
             /\ WritesAt(entries[i], a)
             /\ \A j \in (i + 1)..Len(entries) : ~WritesAt(entries[j], a)
    ELSE 0

WrittenAddrs(entries) ==
    UNION {entries[i].args[1]..(entries[i].args[1] + entries[i].args[2] - 1) :
               i \in {j \in 1..Len(entries) : WritesAt(entries[j],
                                                       entries[j].args[1])}}

\* mem is guest memory once the entries are applied in their order: each
\* address holds the byte of the last entry that writes it, and what it
\* held before if none does
AppliedInOrder(mem, entries) ==
    /\ DOMAIN mem = DOMAIN guest_mem \cup WrittenAddrs(entries)
    /\ \A a \in DOMAIN mem :
           mem[a] = IF LastWriteAt(entries, a) = 0 THEN guest_mem[a]
                    ELSE entries[LastWriteAt(entries, a)]
                             .buf[a - entries[LastWriteAt(entries, a)].args[1]
                                      + 1]

\* C33: after rr_replay_skipped_calls_internal has consumed CPU_MEM_RW and
\* CPU_MEM_UNMAP entries, guest memory holds at [addr, addr+len) of each the
\* recorded bytes, a later entry overriding an earlier one where they
\* overlap, and every other byte of guest memory is what it was.
C33_MemoryWritesInLogOrder ==
    InReplay => \A c \in ReplaySkippedCalls :
                    Running(Call(St, c).s)
                        => AppliedInOrder(Call(St, c).s.mem,
                                          Call(St, c).s.given)

\* two writes recorded at one instruction count that overlap have been
\* applied: the later one's byte is in memory where they overlap, the
\* earlier one's where they do not
C33_Witness ==
    /\ InReplay
    /\ Len(delivered) = 2
    /\ delivered[1].call_kind = "RR_CALL_CPU_MEM_UNMAP"
    /\ delivered[2].call_kind = "RR_CALL_CPU_MEM_RW"
    /\ delivered[2].args[1] = 4097
    /\ delivered[1].prog_point.guest_instr_count > 0
    /\ delivered[1].prog_point.guest_instr_count
           = delivered[2].prog_point.guest_instr_count
    /\ guest_mem[4096] = delivered[1].buf[1]
    /\ guest_mem[4097] = delivered[2].buf[1]
    /\ guest_mem[4098] = delivered[1].buf[3]


(***************************************************************************)
(* The call-site check of rr_replay_interrupt_request, under SpecReplay.   *)
(***************************************************************************)
\* the head of q is an interrupt request that is due
DueInterruptAtHead(q) ==
    /\ q # <<>>
    /\ q[1].kind = "RR_INTERRUPT_REQUEST"
    /\ \/ q[1].prog_point.guest_instr_count = clock.guest_instr_count
       \/ q[1].prog_point.guest_instr_count = 0

\* the call left the queue q and the cached word alone and wrote the
\* cached word into out
InterruptLeft(r, q) ==
    /\ Running(r.s)
    /\ r.s.given = <<>>
    /\ QueueOf(r.s) = q
    /\ r.s.intr = panda_current_interrupt_request
    /\ r.out = panda_current_interrupt_request

\* the call took the head of q, of its own call-site, and rr_fill_queue
\* has then filled the emptied queue from the log
InterruptConsumed(c, r, q) ==
    /\ Running(r.s)
    /\ r.s.given = <<q[1]>>
    /\ q[1].kind = "RR_INTERRUPT_REQUEST"
    /\ q[1].callsite_loc = c.call_site
    /\ r.out = q[1].args[1]
    /\ r.s.fill.called
    /\ r.s.fill.num_entries >= 1
    /\ r.s.fill.bytes > 0
    /\ r.s.fill.queue_len = r.s.fill.num_entries
    /\ Len(QueueOf(r.s)) = r.s.fill.num_entries

InterruptCallSiteChecked(c, r, q) ==
    /\ (DueInterruptAtHead(q) /\ q[1].callsite_loc # c.call_site)
           => InterruptLeft(r, q)
    /\ r.s.given # <<>> => InterruptConsumed(c, r, q)

\* C34: rr_replay_interrupt_request called where the head is a due
\* interrupt request of another call-site does not abort, leaves the queue
\* and the cached interrupt word as they are and writes the cached word
\* into out; when it consumes an entry the entry is of the caller's
\* call-site and the queue is refilled from the log before the call returns.
C34_InterruptCallSiteChecked ==
    InReplay => \A c \in ReplayInterruptCalls :
                    InterruptCallSiteChecked(c, Call(St, c), QueueOrRefill)

\* the head is an interrupt request recorded in the CPU loop after
\* instruction 0, due, carrying a new value: the main loop's call leaves it,
\* the CPU loop's call takes it
C34_Witness ==
    /\ InReplay
    /\ DueInterruptAtHead(Queue)
    /\ Queue[1].prog_point.guest_instr_count > 0
    /\ Queue[1].callsite_loc = "RR_CALLSITE_CPU_HANDLE_INTERRUPT"
    /\ Queue[1].args[1] # panda_current_interrupt_request
    /\ rr_replay_interrupt_request(St, "RR_CALLSITE_MAIN_LOOP_WAIT").out
           = panda_current_interrupt_request
    /\ rr_replay_interrupt_request(St, "RR_CALLSITE_CPU_HANDLE_INTERRUPT").out
           = Queue[1].args[1]


(***************************************************************************)
(* The precondition of rr_fill_queue on the paths that reach it.           *)
(***************************************************************************)
\* what rr_fill_queue asserts when it is entered
FillPrecondition(s) == s.head = NULL /\ s.tail = NULL

\* the state in which rr_do_begin_replay calls rr_fill_queue
BeginReplayAtFill ==
    SetMode(rr_reset_state(rr_create_replay_log(St)), "RR_REPLAY")

\* the state in which get_next_entry has returned g.p and the caller goes
\* on to rr_fill_queue, after recycling the entry; tested tells whether
\* the caller goes on only when the head is null
FillsOnEmpty(g, tested) ==
    (Running(g.s) /\ g.p # NULL /\ (tested => g.s.head = NULL))
        => FillPrecondition(add_to_recycle_list(g.s, g.p))

\* C35: in every replay state the head of the queue is null exactly when
\* its tail is, and rr_fill_queue is entered with both null from
\* rr_do_begin_replay, from get_next_entry, from
\* rr_replay_interrupt_request after it consumed an entry, and from
\* rr_replay_skipped_calls_internal at RR_CALLSITE_MAIN_LOOP_WAIT.
C35_FillOnEmptyQueue ==
    InReplay
        => /\ rr_queue_head = NULL <=> rr_queue_tail = NULL
           /\ Running(BeginReplayAtFill) => FillPrecondition(BeginReplayAtFill)
           /\ \A c \in ReplayInterruptCalls :
                  FillsOnEmpty(get_next_entry(St, "RR_INTERRUPT_REQUEST",
                                              c.call_site, TRUE), FALSE)
           /\ FillsOnEmpty(get_next_entry(St, "RR_SKIPPED_CALL",
                                          "RR_CALLSITE_MAIN_LOOP_WAIT",
                                          FALSE), TRUE)


(***************************************************************************)
(* The head get_next_entry reads once the RR_DEBUG entries are skipped.    *)
(***************************************************************************)
\* the state in which get_next_entry goes on past its test of an empty queue
AfterRefill == IF rr_queue_head = NULL THEN rr_fill_queue(St) ELSE St

\* the kinds for which get_next_entry skips the leading RR_DEBUG entries
DebugSkippingKinds == InputKinds \cup {"RR_EXIT_REQUEST"}

\* s has a head, and it is not an RR_DEBUG entry
HeadToRead(s) ==
    /\ s.head # NULL
    /\ s.shells[s.head].entry.kind # "RR_DEBUG"

\* C36: where get_next_entry reads *rr_queue_head, after the leading
\* RR_DEBUG entries are skipped for an input or an exit request, the queue
\* has a head, which is not an RR_DEBUG entry, and the read does not go
\* through a null pointer.
C36_HeadAfterDebugSkip ==
    (InReplay /\ Running(AfterRefill) /\ AfterRefill.head # NULL)
        => \A kind \in DebugSkippingKinds :
               /\ HeadToRead(SkipDebugFor(AfterRefill, kind))
               /\ get_next_entry(St, kind, "RR_CALLSITE_IO_READ", FALSE)
                      .s.status # "crashed"


(***************************************************************************)
(* The end of the log during replay, under SpecReplay.                     *)
(***************************************************************************)
\* rr_read_item has decoded the RR_LAST entry that ends the log
LastDecoded == rr_nondet_log.item_number = Len(written)

\* the tail of the queue is the RR_LAST entry
TailIsLast ==
    /\ rr_queue_head # NULL
    /\ rr_queue_tail # NULL
    /\ shells[rr_queue_tail].entry.kind = "RR_LAST"
    /\ Queue[Len(Queue)].kind = "RR_LAST"

\* C37: during the replay of a log a record session has written and ended,
\* bytes_read never exceeds size; it equals size exactly when RR_LAST has
\* been decoded, and then the queue is not empty and its tail is the
\* RR_LAST entry, so rr_replay_finished does not read a null head.
C37_ExhaustedLogLeavesLast ==
    InReplay
        => /\ rr_nondet_log.size = Len(file)
           /\ rr_nondet_log.bytes_read <= rr_nondet_log.size
           /\ LastDecoded <=> rr_nondet_log.bytes_read = rr_nondet_log.size
           /\ rr_log_is_empty(St) => TailIsLast
           /\ rr_replay_finished(St).s.status = "running"

\* the log is exhausted behind entries that were consumed, and the guest
\* has not yet reached the end of the log
C37_Witness ==
    /\ InReplay
    /\ rr_log_is_empty(St)
    /\ Len(written) = MaxItems + 1
    /\ Len(delivered) >= 1
    /\ Len(Queue) = 1
    /\ ~rr_replay_finished(St).out


(***************************************************************************)
(* The per-kind counters of rr_read_item, under SpecReplay.                *)
(***************************************************************************)
\* the indices of the cells rr_number_of_log_entries and
\* rr_size_of_log_entries are declared with
CounterCells == 0..(EnumCode(LogEntryKinds, "RR_LAST") - 1)

RECURSIVE SumCells(_, _)
SumCells(f, cells) ==
    IF cells = {} THEN 0
    ELSE f[CHOOSE k \in cells : TRUE]
             + SumCells(f, cells \ {CHOOSE k \in cells : TRUE})

\* the kind of the entry rr_read_item decodes next, as an index
NextIndex ==
    EnumCode(LogEntryKinds, DecodeItem(file, rr_nondet_log.bytes_read)
                                .entry.kind)

\* s is the state after rr_read_item: the count of the kind k is one more,
\* its bytes are more by what was read, the other cells are as they were
CountedOwnKind(s, k) ==
    /\ k \in CounterCells
    /\ s.num = [rr_number_of_log_entries EXCEPT
                    ![k] = rr_number_of_log_entries[k] + 1]
    /\ s.sizes = [rr_size_of_log_entries EXCEPT
                      ![k] = rr_size_of_log_entries[k]
                                 + (s.log.bytes_read
                                        - rr_nondet_log.bytes_read)]
    /\ s.maxq = rr_max_num_queue_entries

\* C38: rr_read_item adds one to the count and the bytes read to the size
\* of the kind of the entry it decodes, the kind being an index inside the
\* arrays for every entry of the log, RR_DEBUG and the final RR_LAST
\* included; and the sizes of all kinds and the header of the log add up to
\* bytes_read.
C38_CountersOfOwnKind ==
    InReplay
        => /\ SumCells(rr_size_of_log_entries, CounterCells) + ProgPointSize
                  = rr_nondet_log.bytes_read
           /\ ~rr_log_is_empty(St)
                  => CountedOwnKind(rr_read_item(St).s, NextIndex)


(***************************************************************************)
(* One owner for each entry shell, under SpecReplay.                       *)
(***************************************************************************)
NoRepeat(ps) == \A i, j \in 1..Len(ps) : ps[i] = ps[j] => i = j

\* the list from p ends in a null link and has no shell twice
Acyclic(sh, p) ==
    /\ NoRepeat(ListFrom(sh, p, Len(sh) + 1))
    /\ Len(ListFrom(sh, p, Len(sh) + 1)) <= Len(sh)

\* the queue and the recycle list of s share no shell, neither has a shell
\* twice, both end, and the tail is the last shell of the queue
OneOwner(s) ==
    /\ Acyclic(s.shells, s.head)
    /\ Acyclic(s.shells, s.recycle)
    /\ \A p \in 1..Len(s.shells) :
           ~(/\ InList(ListFrom(s.shells, s.head, Len(s.shells)), p)
             /\ InList(ListFrom(s.shells, s.recycle, Len(s.shells)), p))
    /\ s.tail = IF s.head = NULL THEN NULL
                ELSE ListFrom(s.shells, s.head, Len(s.shells))
                         [Len(ListFrom(s.shells, s.head, Len(s.shells)))]

\* the shell get_next_entry returned is in neither list and has a null
\* link, and add_to_recycle_list links it in front of the recycle list
EntersPool(g) ==
    (Running(g.s) /\ g.p # NULL)
        => /\ g.s.shells[g.p].next = NULL
           /\ ~InList(ListFrom(g.s.shells, g.s.head, Len(g.s.shells)), g.p)
           /\ ~InList(ListFrom(g.s.shells, g.s.recycle, Len(g.s.shells)), g.p)
           /\ OneOwner(g.s)
           /\ add_to_recycle_list(g.s, g.p).shells[g.p].next = g.s.recycle
           /\ add_to_recycle_list(g.s, g.p).recycle = g.p
           /\ OneOwner(add_to_recycle_list(g.s, g.p))

\* C39: in every state of a replay session no shell is in the prefetch
\* queue and in the recycle list at once, neither list holds a shell twice,
\* both end in a null link, and a shell get_next_entry hands out is in
\* neither list until add_to_recycle_list puts it in front of the recycle
\* list; every replay function leaves the lists so.
C39_ShellsHaveOneOwner ==
    rr_mode = "RR_REPLAY"
        => /\ OneOwner(St)
           /\ \A kind \in RequestedKinds,
                 call_site \in InputCallSites \cup DeviceCallSites :
                  EntersPool(get_next_entry(St, kind, call_site, FALSE))
           /\ \A c \in ReplayCalls : OneOwner(Call(St, c).s)

\* a shell has been recycled and filled again from the log while another
\* is still in the recycle list
C39_Witness ==
    /\ InReplay
    /\ Len(written) = 3
    /\ Len(shells) = 2
    /\ Len(QueuePtrs) = 1
    /\ Len(RecyclePtrs) = 1
    /\ Len(delivered) = 2


(***************************************************************************)
(* The loop of rr_replay_skipped_calls_internal, one turn at a time.       *)
(***************************************************************************)
\* one turn of the do-while loop that never sets replay_done
SkippedCallsTurn_never_done(s, call_site) ==
    LET g == get_next_entry(s, "RR_SKIPPED_CALL", call_site, FALSE) IN
    IF ~Running(g.s) \/ g.p = NULL THEN [s |-> g.s, done |-> FALSE]
    ELSE IF ~SkippedCallApplies(g.s.shells[g.p].entry)
    THEN [s |-> Abort(g.s), done |-> FALSE]
    ELSE [s |-> SkippedCallRefill(
                    add_to_recycle_list(
                        ApplySkippedCall(g.s, g.s.shells[g.p].entry), g.p),
                    call_site),
          done |-> FALSE]

\* one turn of the do-while loop: the state after it, and replay_done
SkippedCallsTurn(s, call_site) ==
    LET g == get_next_entry(s, "RR_SKIPPED_CALL", call_site, FALSE) IN
    IF ~Running(g.s) THEN [s |-> g.s, done |-> FALSE]
    ELSE IF g.p = NULL THEN [s |-> g.s, done |-> TRUE]
    ELSE IF ~SkippedCallApplies(g.s.shells[g.p].entry)
    THEN [s |-> Abort(g.s), done |-> FALSE]
    ELSE [s |-> SkippedCallRefill(
                    add_to_recycle_list(
                        ApplySkippedCall(g.s, g.s.shells[g.p].entry), g.p),
                    call_site),
          done |-> FALSE]

\* the turns of the loop until it is left or the process has ended
RECURSIVE SkippedCallsTurns(_, _)
SkippedCallsTurns(s, call_site) ==
    LET t == SkippedCallsTurn(s, call_site) IN
    IF t.done \/ ~Running(t.s) THEN t.s
    ELSE SkippedCallsTurns(t.s, call_site)

\* the loop is entered: replay_done = 0
SkippedCallsEnter ==
    /\ InReplay
    /\ skipped_calls_pc = ""
    /\ \E call_site \in DeviceCallSites :
           Commit([St EXCEPT !.pc = call_site])

\* the loop takes its next turn, and is left when replay_done is set
SkippedCallsStep ==
    /\ InReplay
    /\ skipped_calls_pc # ""
    /\ LET t == SkippedCallsTurn(St, skipped_calls_pc) IN
           Commit([t.s EXCEPT !.pc = IF t.done THEN "" ELSE skipped_calls_pc])

\* the guest and the requests go on between the calls, not inside one
BetweenCalls(A) == skipped_calls_pc = "" /\ A

\* a write to guest memory seen from the main loop and one from a device
LoopSessionCalls ==
    {CallOf("rr_record_cpu_mem_rw_call", "RR_CALLSITE_MAIN_LOOP_WAIT",
            <<4097>>, <<5>>),
     CallOf("rr_record_cpu_mem_unmap", "RR_CALLSITE_IO_READ",
            <<4096>>, <<3, 4>>)}

NextSkippedLoop ==
    \/ BetweenCalls(Tick)
    \/ BeginRecord
    \/ RecordStep(LoopSessionCalls)
    \/ EndRecord
    \/ BeginReplay
    \/ SkippedCallsEnter
    \/ SkippedCallsStep
    \/ BetweenCalls(EndReplay)

\* the loop has been entered and not left, in a process that runs
LoopRunning == InReplay /\ skipped_calls_pc # ""

\* A function that has been called goes on running until it returns:
\* WF_vars(SkippedCallsStep), with ENABLED <<SkippedCallsStep>>_vars
\* written as the guard of the step, LoopRunning.
SkippedCallsGoOn ==
    \/ []<>(~LoopRunning)
    \/ []<><<SkippedCallsStep>>_vars

SpecSkippedLoop == Init /\ [][NextSkippedLoop]_vars /\ SkippedCallsGoOn

\* the entries replay has still to take: those in the queue and those of
\* the log that rr_fill_queue has not read
EntriesLeft(s) == Len(QueueOf(s)) + (Len(s.written) - s.log.item_number)

\* the turn consumes an entry, or sets replay_done, or ends the process
TurnConsumesOrEnds(s, t) ==
    \/ t.done /\ t.s.delivered = s.delivered
    \/ ~Running(t.s)
    \/ /\ EntriesLeft(t.s) = EntriesLeft(s) - 1
       /\ Len(t.s.delivered) = Len(s.delivered) + 1

\* the turn of a running loop changes the state: the step can be taken
TurnChanges(s, t) ==
    [t.s EXCEPT !.pc = IF t.done THEN "" ELSE s.pc] # s

\* C40: every call of rr_replay_skipped_calls_internal returns, or ends
\* the process, for either call-site: each turn of its loop consumes one
\* entry of the log or sets replay_done, at RR_CALLSITE_MAIN_LOOP_WAIT with
\* the refill inside the loop too, the turns taken one by one come to what
\* the call as a whole does, and a loop that is running is left.
C40_SkippedCallsTerminate ==
    /\ [](InReplay =>
            \A call_site \in DeviceCallSites :
                /\ TurnConsumesOrEnds(St, SkippedCallsTurn(St, call_site))
                /\ SkippedCallsTurns(St, call_site)
                       = rr_replay_skipped_calls_internal(St, call_site))
    /\ [](LoopRunning =>
            TurnChanges(St, SkippedCallsTurn(St, skipped_calls_pc)))
    /\ LoopRunning ~> ~LoopRunning

\* the loop at RR_CALLSITE_MAIN_LOOP_WAIT has taken two skipped calls due
\* at one program point, the queue refilled in between, and runs on
C40_Witness ==
    /\ InReplay
    /\ skipped_calls_pc = "RR_CALLSITE_MAIN_LOOP_WAIT"
    /\ Len(delivered) = 2
    /\ \A i \in 1..2 :
           /\ delivered[i].kind = "RR_SKIPPED_CALL"
           /\ delivered[i].callsite_loc = "RR_CALLSITE_MAIN_LOOP_WAIT"
           /\ delivered[i].prog_point = clock
    /\ fill_ret.called
    /\ fill_ret.num_entries = 1

====
